---- MODULE Spec2Model ----
(***************************************************************************)
(* Vision-guided job page discovery.                                       *)
(*                                                                         *)
(*   - the Pagination Exhauster, vision_detect_pagination                  *)
(*     (src/vision_pagination.py), under SpecPagination;                   *)
(*   - the Navigation Traversal Engine, JobPageDiscovery.discover_job_pages*)
(*     (src/job_page_discovery.py), under SpecDiscovery;                   *)
(*   - the Coordinate Resolver, the click point the traversal code derives *)
(*     from a reported bounding box, under SpecResolver;                   *)
(*   - the Viewport Walker (_find_job_navigation, extract_all_bboxes) and  *)
(*     the parsing of the vision model's answers, under SpecVision;        *)
(*   - the Action Executor, ViewportAnalyzer.perform_action                *)
(*     (src/viewport_analyzer.py), under SpecExecutor;                     *)
(*   - two runs started through discover_all_job_pages, each with its own  *)
(*     JobPageDiscovery instance, under SpecTwoRuns.                       *)
(*                                                                         *)
(* The browser page and the vision model are the environment: every answer *)
(* and every failure they can produce is drawn from a small set.           *)
(***************************************************************************)
EXTENDS Integers, Sequences, FiniteSets, TLC

VARIABLES
    \* ---- Pagination Exhauster: the page and the configuration
    api_key,            \* NEBIUS_API_KEY is set (LLM_API_AVAILABLE)
    viewport_size,      \* page.viewport_size or the 1280x800 fallback
    doc_height,         \* the page's document.body.scrollHeight
    pageYOffset,        \* the page's window.pageYOffset
    \* ---- Pagination Exhauster: locals of vision_detect_pagination
    pg_pc,              \* position in vision_detect_pagination
    total_clicks,
    found_pagination,
    iteration,
    max_iterations,
    page_height,
    current_scroll,
    vision_result,
    result,
    \* ---- Pagination Exhauster: observations of the run so far
    h_rounds,           \* rounds whose setup was started
    h_native_clicks,    \* element.click() calls the page carried out
    h_queried,          \* a vision answer was received
    h_all_click,        \* every vision answer so far was CLICK,100,200
    h_all_none,         \* every vision answer so far was NONE
    h_page_ok,          \* no page operation or query failed, every click found its element
    h_round_stops,      \* scroll offsets at which the current round got a vision answer, in order
    h_points,           \* viewport points at which the call looked an element up
    \* ---- Navigation Traversal Engine: the site and the browser page
    site,               \* what the site under exploration answers
    page_url,           \* page.url
    next_url,           \* the next URL not met so far in the run
    \* ---- Navigation Traversal Engine: JobPageDiscovery and discover_job_pages
    dj_pc,              \* position in discover_job_pages
    visited_urls,
    job_pages,
    all_discovered_elements,
    pages_to_explore,
    current_url,
    depth,
    dj_result,
    \* ---- Navigation Traversal Engine: observations of the run so far
    h_navigated,        \* URLs the loop navigated to, in order
    h_classified,       \* (URL, depth) of the pages handed to the classifier, in order
    h_enqueued,         \* URLs ever put in the frontier
    h_failed,           \* URLs whose navigation failed
    h_last,             \* the step discover_job_pages took last
    h_reported,         \* the elements the vision model reported to the lookups of the run
    \* ---- Coordinate Resolver
    rs_pc,              \* "input": a box was reported, "resolved": its element was handled
    caller,             \* the function that handles the element
    bbox,               \* element['bbox']
    click,              \* <<click_x, click_y>>, or <<>> when the element was skipped
    \* ---- Viewport Walker: the page
    wk_page_height,     \* document.body.scrollHeight
    viewport_height,    \* page.viewport_size['height'] or the fallback 800
    wk_url,             \* page.url
    \* ---- Viewport Walker: locals of _find_job_navigation / extract_all_bboxes
    walker,             \* which of the two functions runs
    wk_pc,              \* position in the function
    scroll_position,
    viewport_count,
    found_elements,
    discovered_urls,
    all_bboxes,
    \* ---- Viewport Walker: observations of the walk so far
    wk_response,        \* the answer at the latest stop of the walk, NoText when something raised
    h_stops,            \* scroll positions at which the vision model was queried, in order
    h_clicked,          \* points page.mouse.click was called at, in order
    h_walk,             \* how the while loop ended
    \* ---- Vision Query Client: one answer and the function that parses it
    vq_pc,              \* "asked": the answer is there, "parsed": the function returned
    consumer,           \* the function that asked
    response,           \* response.choices[0].message.content
    page_fails,         \* a page operation of the function raises
    vq_result,          \* what the function returns
    \* ---- Action Executor: one call of ViewportAnalyzer.perform_action
    ax_pc,              \* "called": the call is made, "returned": it has ended
    action_type,
    ax_args,            \* the keyword arguments passed (an absent one is None)
    ax_page,            \* how the page behaves during the call
    ax_result,          \* the dict returned, or Propagated when the call raised
    h_ops,              \* page operations issued by the call, in order
    field_value,        \* the value of the input field under the bbox
    option_selected,    \* the option the dropdown under the bbox has selected
    \* ---- two runs started through discover_all_job_pages
    heap,               \* the set and list objects created so far, by identity
    discovery,          \* for each run, the objects its JobPageDiscovery instance holds
    tr_run,             \* for each run, the site and the locals of discover_job_pages
    h_interleaved,      \* a run took a step while the other run was under way
    \* ---- simple discovery: one call of SimpleJobDiscovery.discover
    sj_pc,              \* where the call is
    sj_max_depth,       \* the max_depth argument
    sj_viewport_height, \* page.viewport_size['height']
    sj_page_url,        \* page.url
    sj_current_url,     \* current_url of the innermost _explore_page
    sj_depth,           \* depth of the innermost _explore_page
    sj_visited_urls,    \* self.visited_urls
    sj_job_pages,       \* self.job_pages
    sj_discovered_elements, \* self.discovered_elements
    sj_page_height,     \* page_height of _find_next_job_element
    sj_scroll_position, \* scroll_position of _find_next_job_element
    sj_element,         \* what _find_next_job_element returned
    sj_result,          \* what discover returned
    h_sj_stops,         \* scroll positions the current walk has queried, in order
    h_sj_explored,      \* URLs that were marked visited and classified, in order
    h_sj_skipped        \* why the last _explore_page returned at once, if it did

pg_vars == <<api_key, viewport_size, doc_height, pageYOffset, pg_pc, total_clicks,
             found_pagination, iteration, max_iterations, page_height,
             current_scroll, vision_result, result, h_rounds, h_native_clicks,
             h_queried, h_all_click, h_all_none, h_page_ok, h_round_stops,
             h_points>>

dj_vars == <<site, page_url, next_url, dj_pc, visited_urls, job_pages,
             all_discovered_elements, pages_to_explore, current_url, depth,
             dj_result, h_navigated, h_classified, h_enqueued, h_failed, h_last,
             h_reported>>

rs_vars == <<rs_pc, caller, bbox, click>>

wk_vars == <<wk_page_height, viewport_height, wk_url, walker, wk_pc,
             scroll_position, viewport_count, found_elements, discovered_urls,
             all_bboxes, wk_response, h_stops, h_clicked, h_walk>>

vq_vars == <<vq_pc, consumer, response, page_fails, vq_result>>

ax_vars == <<ax_pc, action_type, ax_args, ax_page, ax_result, h_ops, field_value,
             option_selected>>

tr_vars == <<heap, discovery, tr_run, h_interleaved>>

sj_vars == <<sj_pc, sj_max_depth, sj_viewport_height, sj_page_url, sj_current_url,
             sj_depth, sj_visited_urls, sj_job_pages, sj_discovered_elements,
             sj_page_height, sj_scroll_position, sj_element, sj_result,
             h_sj_stops, h_sj_explored, h_sj_skipped>>

vars == <<pg_vars, dj_vars, rs_vars, wk_vars, vq_vars, ax_vars, tr_vars, sj_vars>>

Min(a, b) == IF a <= b THEN a ELSE b
Max(a, b) == IF a >= b THEN a ELSE b

\* a text the vision model did not produce
NoText == [fence |-> "none", body |-> ""]

\* no bounding box is being resolved
ResolverIdle ==
    /\ rs_pc = "idle"
    /\ caller = "none"
    /\ bbox = <<>>
    /\ click = <<>>

\* no viewport walk is running
WalkerIdle ==
    /\ wk_page_height = 0
    /\ viewport_height = 800
    /\ wk_url = 0
    /\ walker = "none"
    /\ wk_pc = "idle"
    /\ scroll_position = 0
    /\ viewport_count = 0
    /\ found_elements = <<>>
    /\ discovered_urls = <<>>
    /\ all_bboxes = <<>>
    /\ wk_response = NoText
    /\ h_stops = <<>>
    /\ h_clicked = <<>>
    /\ h_walk = "none"

\* no answer of the vision model is being parsed
QueryIdle ==
    /\ vq_pc = "idle"
    /\ consumer = "none"
    /\ response = NoText
    /\ page_fails = FALSE
    /\ vq_result = <<>>

\* no keyword arguments
NoArgs == <<>>

\* no call of perform_action is being made
ExecutorIdle ==
    /\ ax_pc = "idle"
    /\ action_type = "none"
    /\ ax_args = NoArgs
    /\ ax_page = [fails |-> {}, field_keeps |-> TRUE, typeahead_selects |-> TRUE]
    /\ ax_result = <<>>
    /\ h_ops = <<>>
    /\ field_value = ""
    /\ option_selected = ""

\* no run was started through discover_all_job_pages
TwoRunsIdle ==
    /\ heap = <<>>
    /\ discovery = <<>>
    /\ tr_run = <<>>
    /\ h_interleaved = FALSE


(***************************************************************************)
(* Pagination Exhauster: constants and the environment's answers.          *)
(***************************************************************************)
max_clicks == 20
IterationCap == 15
DefaultViewport == [width |-> 1280, height |-> 800]

\* The viewports a page is opened with: the fallback, and one so small that
\* the point (100, 200) lies just outside it.
Viewports == {DefaultViewport, [width |-> 100, height |-> 200]}

\* Document heights the page can report (short, scrollable, very long).
Heights == {0, 500, 2000, 20000}

\* response.choices[0].message.content.strip(), or "" without choices.
Responses == {"CLICK,100,200", "NONE", "click,50,60", "CLICK,2000,200",
              "CLICK,abc,200", "", "No pagination, none visible", "CLICK,-5,200"}

\* str.lower()
Lower(s) ==
    CASE s = "CLICK,100,200" -> "click,100,200"
      [] s = "NONE" -> "none"
      [] s = "CLICK,2000,200" -> "click,2000,200"
      [] s = "CLICK,abc,200" -> "click,abc,200"
      [] s = "CLICK,-5,200" -> "click,-5,200"
      [] s = "No pagination, none visible" -> "no pagination, none visible"
      [] OTHER -> s

\* "none" in s, for a lower-cased s
ContainsNone(s) == s \in {"none", "no pagination, none visible"}

\* str.split(',')
Split(s) ==
    CASE s = "CLICK,100,200" -> <<"CLICK", "100", "200">>
      [] s = "click,50,60" -> <<"click", "50", "60">>
      [] s = "CLICK,2000,200" -> <<"CLICK", "2000", "200">>
      [] s = "CLICK,abc,200" -> <<"CLICK", "abc", "200">>
      [] s = "CLICK,-5,200" -> <<"CLICK", "-5", "200">>
      [] s = "No pagination, none visible" -> <<"No pagination", " none visible">>
      [] OTHER -> <<s>>

\* str.upper()
Upper(s) == IF s = "click" THEN "CLICK" ELSE s

\* int(s) succeeds
IsInt(s) == s \in {"50", "60", "100", "200", "2000", "-5"}

\* int(s)
ToInt(s) ==
    CASE s = "50" -> 50
      [] s = "60" -> 60
      [] s = "100" -> 100
      [] s = "200" -> 200
      [] s = "2000" -> 2000
      [] s = "-5" -> 0 - 5

\* scroll_step = int(viewport_size['height'] * 0.75)
ScrollStep == (viewport_size.height * 3) \div 4

\* window.scrollTo(0, y) followed by window.pageYOffset: the page cannot
\* scroll past its last full viewport.
ScrolledTo(y) == Min(y, Max(0, doc_height - viewport_size.height))

\* a mutation of ClickTarget: the point is not tested against the viewport
ClickTargetAnyPoint(s) ==
    LET parts == Split(s) IN
    /\ ~ContainsNone(Lower(s))
    /\ Len(parts) = 3
    /\ Upper(parts[1]) = "CLICK"
    /\ IsInt(parts[2]) /\ IsInt(parts[3])

\* a mutation of ClickTarget: the viewport's width and height are allowed
ClickTargetInclusive(s) ==
    LET parts == Split(s) IN
    /\ ~ContainsNone(Lower(s))
    /\ Len(parts) = 3
    /\ Upper(parts[1]) = "CLICK"
    /\ IsInt(parts[2]) /\ IsInt(parts[3])
    /\ 0 <= ToInt(parts[2]) /\ ToInt(parts[2]) <= viewport_size.width
    /\ 0 <= ToInt(parts[3]) /\ ToInt(parts[3]) <= viewport_size.height

\* The answer names a click target the code acts on: no "none" in it, the
\* form CLICK,x,y with integer x and y, and the point inside the viewport.
ClickTarget(s) ==
    LET parts == Split(s) IN
    /\ ~ContainsNone(Lower(s))
    /\ Len(parts) = 3
    /\ Upper(parts[1]) = "CLICK"
    /\ IsInt(parts[2]) /\ IsInt(parts[3])
    /\ 0 <= ToInt(parts[2]) /\ ToInt(parts[2]) < viewport_size.width
    /\ 0 <= ToInt(parts[3]) /\ ToInt(parts[3]) < viewport_size.height

\* click_x, click_y of an answer of the form CLICK,x,y
TargetPoint(s) == <<ToInt(Split(s)[2]), ToInt(Split(s)[3])>>

\* a mutation of ResultOf: the count is reported in both modes
ResultOfAlwaysCounted(n) ==
    [mode |-> IF n > 0 THEN "vision_click" ELSE "none", total_clicks |-> n]

\* the values returned at the end of the function
ResultOf(n) ==
    IF n > 0 THEN [mode |-> "vision_click", total_clicks |-> n]
             ELSE [mode |-> "none"]

Pending == [mode |-> "pending"]

\* SimpleJobDiscovery.discover is not running
SimpleIdle ==
    /\ sj_pc = "idle"
    /\ sj_max_depth = 0
    /\ sj_viewport_height = 0
    /\ sj_page_url = 0
    /\ sj_current_url = 0
    /\ sj_depth = 0
    /\ sj_visited_urls = {}
    /\ sj_job_pages = <<>>
    /\ sj_discovered_elements = <<>>
    /\ sj_page_height = 0
    /\ sj_scroll_position = 0
    /\ sj_element = <<>>
    /\ sj_result = Pending
    /\ h_sj_stops = <<>>
    /\ h_sj_explored = <<>>
    /\ h_sj_skipped = "no"

\* the discovery engine is not constructed
DiscoveryIdle ==
    /\ site = [init_links |-> 0, fanout |-> 0, back |-> "none",
               classifier |-> <<"json_not">>, fails |-> <<FALSE>>,
               start_loads |-> TRUE]
    /\ page_url = 0
    /\ next_url = 1
    /\ dj_pc = "idle"
    /\ visited_urls = {}
    /\ job_pages = <<>>
    /\ all_discovered_elements = <<>>
    /\ pages_to_explore = <<>>
    /\ current_url = 0
    /\ depth = 0
    /\ dj_result = Pending
    /\ h_navigated = <<>>
    /\ h_classified = <<>>
    /\ h_enqueued = {}
    /\ h_failed = {}
    /\ h_last = "none"
    /\ h_reported = {}

InitPagination ==
    /\ api_key \in BOOLEAN
    /\ viewport_size \in Viewports
    /\ doc_height \in Heights
    /\ pageYOffset = 0
    /\ pg_pc = "start"
    /\ total_clicks = 0
    /\ found_pagination = FALSE
    /\ iteration = 0
    /\ max_iterations = 0
    /\ page_height = 0
    /\ current_scroll = 0
    /\ vision_result = ""
    /\ result = Pending
    /\ h_rounds = 0
    /\ h_native_clicks = 0
    /\ h_queried = FALSE
    /\ h_all_click = TRUE
    /\ h_all_none = TRUE
    /\ h_page_ok = TRUE
    /\ h_round_stops = <<>>
    /\ h_points = {}
    /\ DiscoveryIdle
    /\ ResolverIdle
    /\ WalkerIdle
    /\ QueryIdle
    /\ ExecutorIdle
    /\ TwoRunsIdle
    /\ SimpleIdle

\* what the outer "except Exception" returns
OuterExcept == [mode |-> "none"]

\* entry: without an API key the function returns at once
PgStart ==
    /\ pg_pc = "start"
    /\ UNCHANGED <<dj_vars, rs_vars, wk_vars, vq_vars, ax_vars, tr_vars, sj_vars>>
    /\ IF ~api_key
          THEN /\ result' = [mode |-> "none"]
               /\ pg_pc' = "done"
          ELSE /\ pg_pc' = "round"
               /\ UNCHANGED result
    /\ total_clicks' = 0
    /\ UNCHANGED <<h_round_stops, h_points, api_key, viewport_size, doc_height, pageYOffset, found_pagination,
                   iteration, max_iterations, page_height, current_scroll,
                   vision_result, h_rounds, h_native_clicks, h_queried,
                   h_all_click, h_all_none, h_page_ok>>

\* a mutation of WithinClickLimit: the loop has no ceiling
WithinClickLimitNoCeiling == TRUE

\* a mutation of WithinClickLimit: the ceiling test off by one
WithinClickLimitOffByOne == total_clicks <= max_clicks

\* the condition of "while total_clicks < max_clicks"
WithinClickLimit == total_clicks < max_clicks

\* one pass of the while loop's head: scroll to the top, read the page height
PgRoundSetup ==
    /\ pg_pc = "round"
    /\ UNCHANGED <<dj_vars, rs_vars, wk_vars, vq_vars, ax_vars, tr_vars, sj_vars>>
    /\ IF WithinClickLimit
          THEN /\ h_rounds' = h_rounds + 1
               /\ \/ /\ pageYOffset' = 0
                     /\ page_height' = doc_height
                     /\ max_iterations' = Min(IterationCap, (doc_height \div ScrollStep) + 2)
                     /\ found_pagination' = FALSE
                     /\ iteration' = 0
                     /\ h_round_stops' = <<>>
                     /\ pg_pc' = "scan"
                     /\ UNCHANGED h_page_ok
                  \/ \* the setup raised: break
                     /\ pg_pc' = "ret"
                     /\ h_page_ok' = FALSE
                     /\ UNCHANGED <<pageYOffset, page_height, max_iterations,
                                    found_pagination, iteration, h_round_stops>>
          ELSE /\ pg_pc' = "ret"
               /\ UNCHANGED <<h_rounds, pageYOffset, page_height, max_iterations,
                              found_pagination, iteration, h_page_ok, h_round_stops>>
    /\ UNCHANGED <<api_key, viewport_size, doc_height, total_clicks, current_scroll,
                   vision_result, result, h_native_clicks, h_queried, h_all_click,
                   h_all_none, h_points>>

\* for iteration in range(max_iterations): read the scroll offset, take the screenshot
PgScan ==
    /\ pg_pc = "scan"
    /\ UNCHANGED <<dj_vars, rs_vars, wk_vars, vq_vars, ax_vars, tr_vars, sj_vars>>
    /\ IF iteration < max_iterations
          THEN \/ /\ current_scroll' = pageYOffset
                  /\ pg_pc' = "query"
                  /\ UNCHANGED <<iteration, h_page_ok>>
               \/ \* offset read or screenshot raised: continue
                  /\ iteration' = iteration + 1
                  /\ h_page_ok' = FALSE
                  /\ UNCHANGED <<current_scroll, pg_pc>>
          ELSE /\ pg_pc' = "roundend"
               /\ UNCHANGED <<current_scroll, iteration, h_page_ok>>
    /\ UNCHANGED <<h_round_stops, h_points, api_key, viewport_size, doc_height, pageYOffset, total_clicks,
                   found_pagination, max_iterations, page_height, vision_result,
                   result, h_rounds, h_native_clicks, h_queried, h_all_click,
                   h_all_none>>

\* client.chat.completions.create(...): an answer, or an exception that only
\* the outer handler catches
PgQuery ==
    /\ pg_pc = "query"
    /\ UNCHANGED <<dj_vars, rs_vars, wk_vars, vq_vars, ax_vars, tr_vars, sj_vars>>
    /\ \/ \E r \in Responses :
            /\ vision_result' = r
            /\ h_queried' = TRUE
            /\ h_all_click' = (h_all_click /\ r = "CLICK,100,200")
            /\ h_all_none' = (h_all_none /\ r = "NONE")
            /\ h_round_stops' = Append(h_round_stops, current_scroll)
            /\ pg_pc' = "act"
            /\ UNCHANGED <<result, h_page_ok>>
       \/ /\ result' = OuterExcept
          /\ pg_pc' = "done"
          /\ h_page_ok' = FALSE
          /\ UNCHANGED <<vision_result, h_queried, h_all_click, h_all_none,
                         h_round_stops>>
    /\ UNCHANGED <<api_key, viewport_size, doc_height, pageYOffset, total_clicks,
                   found_pagination, iteration, max_iterations, page_height,
                   current_scroll, h_rounds, h_native_clicks, h_points>>

\* parse the answer; on a target inside the viewport look the element up and
\* click it
PgAct ==
    /\ pg_pc = "act"
    /\ UNCHANGED <<dj_vars, rs_vars, wk_vars, vq_vars, ax_vars, tr_vars, sj_vars>>
    /\ h_points' = IF ClickTarget(vision_result)
                      THEN h_points \cup {TargetPoint(vision_result)}
                      ELSE h_points
    /\ IF ClickTarget(vision_result)
          THEN \/ \* element found and clicked: count it, leave the round
                  /\ total_clicks' = total_clicks + 1
                  /\ h_native_clicks' = h_native_clicks + 1
                  /\ doc_height' \in Heights
                  /\ found_pagination' = TRUE
                  /\ pg_pc' = "roundend"
                  /\ UNCHANGED <<result, h_page_ok>>
               \/ \* no element at the point: success is false
                  /\ pg_pc' = "advance"
                  /\ h_page_ok' = FALSE
                  /\ UNCHANGED <<total_clicks, h_native_clicks, doc_height,
                                 found_pagination, result>>
               \/ \* page.evaluate raised: caught by the outer handler only
                  /\ result' = OuterExcept
                  /\ pg_pc' = "done"
                  /\ h_page_ok' = FALSE
                  /\ UNCHANGED <<total_clicks, h_native_clicks, doc_height,
                                 found_pagination>>
          ELSE /\ pg_pc' = "advance"
               /\ UNCHANGED <<total_clicks, h_native_clicks, doc_height,
                              found_pagination, result, h_page_ok>>
    /\ UNCHANGED <<h_round_stops, api_key, viewport_size, pageYOffset, iteration, max_iterations,
                   page_height, current_scroll, vision_result, h_rounds, h_queried,
                   h_all_click, h_all_none>>

\* no click in this viewport: stop at the end of the page, else scroll on
PgAdvance ==
    /\ pg_pc = "advance"
    /\ UNCHANGED <<dj_vars, rs_vars, wk_vars, vq_vars, ax_vars, tr_vars, sj_vars>>
    /\ IF current_scroll + ScrollStep >= page_height
          THEN /\ pg_pc' = "roundend"
               /\ UNCHANGED <<pageYOffset, iteration, h_page_ok>>
          ELSE \/ /\ pageYOffset' = ScrolledTo(current_scroll + ScrollStep)
                  /\ iteration' = iteration + 1
                  /\ pg_pc' = "scan"
                  /\ UNCHANGED h_page_ok
               \/ \* the scroll raised: break
                  /\ pg_pc' = "roundend"
                  /\ h_page_ok' = FALSE
                  /\ UNCHANGED <<pageYOffset, iteration>>
    /\ UNCHANGED <<h_round_stops, h_points, api_key, viewport_size, doc_height, total_clicks, found_pagination,
                   max_iterations, page_height, current_scroll, vision_result,
                   result, h_rounds, h_native_clicks, h_queried, h_all_click,
                   h_all_none>>

\* a mutation of PgRoundEnd: after a hit the scan goes on where it was
PgRoundEndResumesScan ==
    /\ pg_pc = "roundend"
    /\ UNCHANGED <<dj_vars, rs_vars, wk_vars, vq_vars, ax_vars, tr_vars, sj_vars>>
    /\ pg_pc' = IF found_pagination THEN "scan" ELSE "ret"
    /\ UNCHANGED <<h_round_stops, h_points, api_key, viewport_size, doc_height, pageYOffset,
                   total_clicks, found_pagination, iteration, max_iterations,
                   page_height, current_scroll, vision_result, result, h_rounds,
                   h_native_clicks, h_queried, h_all_click, h_all_none, h_page_ok>>

\* a mutation of PgRoundEnd: a round without a hit is followed by another
PgRoundEndNeverExhausted ==
    /\ pg_pc = "roundend"
    /\ UNCHANGED <<dj_vars, rs_vars, wk_vars, vq_vars, ax_vars, tr_vars, sj_vars>>
    /\ pg_pc' = "round"
    /\ UNCHANGED <<h_round_stops, h_points, api_key, viewport_size, doc_height,
                   pageYOffset, total_clicks, found_pagination, iteration,
                   max_iterations, page_height, current_scroll, vision_result,
                   result, h_rounds, h_native_clicks, h_queried, h_all_click,
                   h_all_none, h_page_ok>>

\* if not found_pagination: break
PgRoundEnd ==
    /\ pg_pc = "roundend"
    /\ UNCHANGED <<dj_vars, rs_vars, wk_vars, vq_vars, ax_vars, tr_vars, sj_vars>>
    /\ pg_pc' = IF found_pagination THEN "round" ELSE "ret"
    /\ UNCHANGED <<h_round_stops, h_points, api_key, viewport_size, doc_height, pageYOffset, total_clicks,
                   found_pagination, iteration, max_iterations, page_height,
                   current_scroll, vision_result, result, h_rounds,
                   h_native_clicks, h_queried, h_all_click, h_all_none, h_page_ok>>

\* the normal return
PgReturn ==
    /\ pg_pc = "ret"
    /\ UNCHANGED <<dj_vars, rs_vars, wk_vars, vq_vars, ax_vars, tr_vars, sj_vars>>
    /\ result' = ResultOf(total_clicks)
    /\ pg_pc' = "done"
    /\ UNCHANGED <<h_round_stops, h_points, api_key, viewport_size, doc_height, pageYOffset, total_clicks,
                   found_pagination, iteration, max_iterations, page_height,
                   current_scroll, vision_result, h_rounds, h_native_clicks,
                   h_queried, h_all_click, h_all_none, h_page_ok>>

NextPagination ==
    \/ PgStart
    \/ PgRoundSetup
    \/ PgScan
    \/ PgQuery
    \/ PgAct
    \/ PgAdvance
    \/ PgRoundEnd
    \/ PgReturn

SpecPagination == InitPagination /\ [][NextPagination]_vars

PgTypeOK ==
    /\ total_clicks \in 0..max_clicks
    /\ iteration \in 0..IterationCap
    /\ pg_pc \in {"start", "round", "scan", "query", "act", "advance", "roundend",
                  "ret", "done"}

(***************************************************************************)
(* Navigation Traversal Engine: discover_job_pages.                        *)
(*                                                                         *)
(* URLs are numbers: 0 is the start URL, and a URL met for the first time  *)
(* is the next unused number (URLs are only compared for equality).  A     *)
(* URL is navigated to at most once in a run, so what its page answers is  *)
(* a function of the URL, fixed by the site.                               *)
(***************************************************************************)
MAX_PAGES_TO_EXPLORE == 50
MAX_DEPTH == 3

\* most links _find_job_navigation finds on the start page
MaxInitLinks == 3
\* most new links found on one explored page
MaxFanout == 3

start_url == 0

\* links to pages met before that an explored page carries besides new ones:
\* none, one to itself, one to the start URL, or every new link twice
BackKinds == {"none", "self", "start", "dup"}

\* what the classification query answers, by URL (repeating)
ClassifierPatterns ==
    { <<"json_not">>,
      <<"json_job">>,
      <<"json_job", "json_not">>,
      <<"text_yes", "json_not", "raise">>,
      <<"json_not", "text_other", "raise">>,
      <<"json_job_no_confidence", "json_job">>,
      <<"json_no_verdict", "text_other">> }

\* whether page.goto fails, by URL (repeating)
FailPatterns == { <<FALSE>>, <<TRUE>>, <<FALSE, TRUE>>, <<FALSE, FALSE, TRUE>> }

Sites ==
    [init_links : 0..MaxInitLinks, fanout : 0..MaxFanout, back : BackKinds,
     classifier : ClassifierPatterns, fails : FailPatterns, start_loads : BOOLEAN]

Cyclic(pattern, u) == pattern[(u % Len(pattern)) + 1]

\* page.goto(u) raises (load error or timeout)
GotoFails(u) == Cyclic(site.fails, u)

\* _verify_job_listing_page: the dict it returns for the model's answer.
\* Valid JSON is returned as parsed, whatever its keys; other text goes
\* through the "true" and "job" test with confidence 0.5; an exception gives
\* is_job_page False with confidence 0.  Confidence is in percent.
VerifyJobListingPage(answer) ==
    CASE answer = "json_job" ->
            [is_job_page |-> TRUE, confidence |-> 90, job_count |-> 12,
             page_type |-> "job_listing"]
      [] answer = "json_not" ->
            [is_job_page |-> FALSE, confidence |-> 80, page_type |-> "not_job_related"]
      [] answer = "json_job_no_confidence" ->
            [is_job_page |-> TRUE, page_type |-> "job_listing"]
      [] answer = "json_no_verdict" ->
            [page_type |-> "career_landing"]
      [] answer = "text_yes" ->
            [is_job_page |-> TRUE, confidence |-> 50, page_type |-> "unknown"]
      [] answer = "text_other" ->
            [is_job_page |-> FALSE, confidence |-> 50, page_type |-> "unknown"]
      [] answer = "raise" ->
            [is_job_page |-> FALSE, confidence |-> 0]

\* the classification of the page at URL u
Analysis(u) == VerifyJobListingPage(Cyclic(site.classifier, u))

\* dict.get(key, default)
Get(d, key, default) == IF key \in DOMAIN d THEN d[key] ELSE default

\* k URLs not met so far
Fresh(k) == [i \in 1..k |-> next_url + i - 1]

\* links to pages met before, found on the page at URL u
BackLinks(u) ==
    CASE site.back = "self" -> <<u>>
      [] site.back = "start" -> <<start_url>>
      [] OTHER -> <<>>

\* _find_job_navigation: the URLs the clicks of the viewport walk led to
FindJobNavigation(k) ==
    IF site.back = "dup" THEN Fresh(k) \o Fresh(k) ELSE Fresh(k)

\* the elements the viewport walk stored, one for each link label
FoundElements(u, k) == [i \in 1..k |-> [label |-> next_url + i - 1, page_url |-> u]]

\* _find_job_links_on_page: the hrefs under the reported elements
FindJobLinksOnPage(u) == BackLinks(u)

\* _find_related_job_pages: the hrefs under the reported elements
FindRelatedJobPages(u) == Fresh(site.fanout) \o BackLinks(u)

Range(q) == {q[i] : i \in DOMAIN q}

\* the elements under which _find_job_links_on_page or _find_related_job_pages
\* found the links on the page at URL u, one element for each href
ReportedFor(links, u) == {[label |-> links[i], page_url |-> u] : i \in DOMAIN links}

\* "if link not in self.visited_urls: pages_to_explore.append((link, depth + 1))"
Enqueue(links, d) ==
    LET kept == SelectSeq(links, LAMBDA l : l \notin visited_urls)
    IN  [i \in 1..Len(kept) |-> <<kept[i], d>>]

\* a mutation of InitialFrontier: the start URL itself is queued first
InitialFrontierWithStart(links) ==
    <<<<start_url, 0>>>> \o [i \in 1..Len(links) |-> <<links[i], 0>>]

\* the frontier after the start page: (link, 0) for link in job_nav_links
InitialFrontier(links) == [i \in 1..Len(links) |-> <<links[i], 0>>]

\* a mutation of LoopCondition: the page cap is not tested
LoopConditionNoCap == pages_to_explore # <<>>

\* a mutation of LoopCondition: the page cap is tested with <=
LoopConditionOffByOne ==
    pages_to_explore # <<>> /\ Cardinality(visited_urls) <= MAX_PAGES_TO_EXPLORE

\* the condition of the while loop
LoopCondition ==
    pages_to_explore # <<>> /\ Cardinality(visited_urls) < MAX_PAGES_TO_EXPLORE

\* a mutation of SkipEntry: the visited set is not consulted
SkipEntryIgnoresVisited(u, d) == d > MAX_DEPTH

\* a mutation of SkipEntry: the depth of the entry is not tested
SkipEntryAnyDepth(u, d) == u \in visited_urls

\* a mutation of SkipEntry: the depth is tested with >=
SkipEntryAtMaxDepth(u, d) == u \in visited_urls \/ d >= MAX_DEPTH

\* "if current_url in self.visited_urls or depth > MAX_DEPTH: continue"
SkipEntry(u, d) == u \in visited_urls \/ d > MAX_DEPTH

\* the record appended to job_pages
JobPageRecord(u, d, a) ==
    [url |-> u, confidence |-> a.confidence, job_count |-> Get(a, "job_count", 0),
     page_type |-> Get(a, "page_type", "unknown"), depth |-> d]

\* the result dict
DiscoveryResult ==
    [job_pages |-> job_pages,
     total_pages_explored |-> Cardinality(visited_urls),
     total_job_pages_found |-> Len(job_pages),
     discovered_elements |-> all_discovered_elements,
     total_elements_discovered |-> Len(all_discovered_elements)]

\* the pagination exhauster is not running
PaginationIdle ==
    /\ api_key = FALSE
    /\ viewport_size = DefaultViewport
    /\ doc_height = 0
    /\ pageYOffset = 0
    /\ pg_pc = "idle"
    /\ total_clicks = 0
    /\ found_pagination = FALSE
    /\ iteration = 0
    /\ max_iterations = 0
    /\ page_height = 0
    /\ current_scroll = 0
    /\ vision_result = ""
    /\ result = Pending
    /\ h_rounds = 0
    /\ h_native_clicks = 0
    /\ h_queried = FALSE
    /\ h_all_click = TRUE
    /\ h_all_none = TRUE
    /\ h_page_ok = TRUE
    /\ h_round_stops = <<>>
    /\ h_points = {}

\* JobPageDiscovery.__init__, before discover_job_pages is called
InitDiscovery ==
    /\ site \in Sites
    /\ page_url = start_url
    /\ next_url = 1
    /\ dj_pc = "start"
    /\ visited_urls = {}
    /\ job_pages = <<>>
    /\ all_discovered_elements = <<>>
    /\ pages_to_explore = <<>>
    /\ current_url = start_url
    /\ depth = 0
    /\ dj_result = Pending
    /\ h_navigated = <<>>
    /\ h_classified = <<>>
    /\ h_enqueued = {}
    /\ h_failed = {}
    /\ h_last = "none"
    /\ h_reported = {}
    /\ PaginationIdle
    /\ ResolverIdle
    /\ WalkerIdle
    /\ QueryIdle
    /\ ExecutorIdle
    /\ TwoRunsIdle
    /\ SimpleIdle

\* stage 1: open the start URL and collect the navigation links on it; a
\* failing page.goto here is not caught
DjStart ==
    /\ h_last' = "start"
    /\ dj_pc = "start"
    /\ UNCHANGED <<pg_vars, rs_vars, wk_vars, vq_vars, ax_vars, tr_vars, sj_vars>>
    /\ IF site.start_loads
          THEN LET links == FindJobNavigation(site.init_links) IN
               /\ pages_to_explore' = InitialFrontier(links)
               /\ all_discovered_elements' =
                      all_discovered_elements \o FoundElements(start_url, site.init_links)
               /\ next_url' = next_url + site.init_links
               /\ page_url' = IF links = <<>> THEN start_url ELSE links[Len(links)]
               /\ h_enqueued' = Range(links)
               /\ h_reported' = Range(FoundElements(start_url, site.init_links))
               /\ dj_pc' = "loop"
          ELSE /\ dj_pc' = "raised"
               /\ UNCHANGED <<pages_to_explore, all_discovered_elements, next_url,
                              page_url, h_enqueued, h_reported>>
    /\ UNCHANGED <<site, visited_urls, job_pages, current_url, depth, dj_result,
                   h_navigated, h_classified, h_failed>>

\* the loop takes the head of the frontier and drops it: already visited, or too deep
DjSkip ==
    /\ h_last' = "skip"
    /\ dj_pc = "loop"
    /\ UNCHANGED <<pg_vars, rs_vars, wk_vars, vq_vars, ax_vars, tr_vars, sj_vars>>
    /\ LoopCondition
    /\ SkipEntry(Head(pages_to_explore)[1], Head(pages_to_explore)[2])
    /\ current_url' = Head(pages_to_explore)[1]
    /\ depth' = Head(pages_to_explore)[2]
    /\ pages_to_explore' = Tail(pages_to_explore)
    /\ UNCHANGED <<site, page_url, next_url, dj_pc, visited_urls, job_pages,
                   all_discovered_elements, dj_result, h_navigated, h_classified,
                   h_enqueued, h_failed, h_reported>>

\* a mutation of DjVisit: the entry is taken from the tail of the frontier
DjVisitTakesLast ==
    /\ h_last' = "visit"
    /\ dj_pc = "loop"
    /\ UNCHANGED <<pg_vars, rs_vars, wk_vars, vq_vars, ax_vars, tr_vars, sj_vars>>
    /\ LoopCondition
    /\ LET last == pages_to_explore[Len(pages_to_explore)] IN
       /\ ~SkipEntry(last[1], last[2])
       /\ current_url' = last[1]
       /\ depth' = last[2]
       /\ pages_to_explore' = SubSeq(pages_to_explore, 1, Len(pages_to_explore) - 1)
       /\ visited_urls' = visited_urls \cup {last[1]}
    /\ dj_pc' = "goto"
    /\ UNCHANGED <<site, page_url, next_url, job_pages, all_discovered_elements,
                   dj_result, h_navigated, h_classified, h_enqueued, h_failed,
                   h_reported>>

\* the loop takes the head of the frontier and marks it visited
DjVisit ==
    /\ h_last' = "visit"
    /\ dj_pc = "loop"
    /\ UNCHANGED <<pg_vars, rs_vars, wk_vars, vq_vars, ax_vars, tr_vars, sj_vars>>
    /\ LoopCondition
    /\ ~SkipEntry(Head(pages_to_explore)[1], Head(pages_to_explore)[2])
    /\ current_url' = Head(pages_to_explore)[1]
    /\ depth' = Head(pages_to_explore)[2]
    /\ pages_to_explore' = Tail(pages_to_explore)
    /\ visited_urls' = visited_urls \cup {Head(pages_to_explore)[1]}
    /\ dj_pc' = "goto"
    /\ UNCHANGED <<site, page_url, next_url, job_pages, all_discovered_elements,
                   dj_result, h_navigated, h_classified, h_enqueued, h_failed,
                   h_reported>>

\* a mutation of DjGoto: a failing page.goto ends the run
DjGotoFailureEndsRun ==
    /\ dj_pc = "goto"
    /\ UNCHANGED <<pg_vars, rs_vars, wk_vars, vq_vars, ax_vars, tr_vars, sj_vars>>
    /\ h_last' = IF GotoFails(current_url) THEN "goto_failed" ELSE "goto_ok"
    /\ IF GotoFails(current_url)
          THEN /\ h_failed' = h_failed \cup {current_url}
               /\ dj_pc' = "raised"
               /\ UNCHANGED <<page_url, h_navigated>>
          ELSE /\ page_url' = current_url
               /\ h_navigated' = Append(h_navigated, current_url)
               /\ dj_pc' = "classify"
               /\ UNCHANGED h_failed
    /\ UNCHANGED <<site, next_url, visited_urls, job_pages, all_discovered_elements,
                   pages_to_explore, current_url, depth, dj_result, h_classified,
                   h_enqueued, h_reported>>

\* a mutation of DjGoto: a URL whose page.goto failed is not kept as visited
DjGotoFailureForgets ==
    /\ dj_pc = "goto"
    /\ UNCHANGED <<pg_vars, rs_vars, wk_vars, vq_vars, ax_vars, tr_vars, sj_vars>>
    /\ h_last' = IF GotoFails(current_url) THEN "goto_failed" ELSE "goto_ok"
    /\ IF GotoFails(current_url)
          THEN /\ h_failed' = h_failed \cup {current_url}
               /\ visited_urls' = visited_urls \ {current_url}
               /\ dj_pc' = "loop"
               /\ UNCHANGED <<page_url, h_navigated>>
          ELSE /\ page_url' = current_url
               /\ h_navigated' = Append(h_navigated, current_url)
               /\ dj_pc' = "classify"
               /\ UNCHANGED <<h_failed, visited_urls>>
    /\ UNCHANGED <<site, next_url, job_pages, all_discovered_elements,
                   pages_to_explore, current_url, depth, dj_result, h_classified,
                   h_enqueued, h_reported>>

\* page.goto(current_url) inside the try: a failure abandons the entry
DjGoto ==
    /\ dj_pc = "goto"
    /\ UNCHANGED <<pg_vars, rs_vars, wk_vars, vq_vars, ax_vars, tr_vars, sj_vars>>
    /\ h_last' = IF GotoFails(current_url) THEN "goto_failed" ELSE "goto_ok"
    /\ IF GotoFails(current_url)
          THEN /\ h_failed' = h_failed \cup {current_url}
               /\ dj_pc' = "loop"
               /\ UNCHANGED <<page_url, h_navigated>>
          ELSE /\ page_url' = current_url
               /\ h_navigated' = Append(h_navigated, current_url)
               /\ dj_pc' = "classify"
               /\ UNCHANGED h_failed
    /\ UNCHANGED <<site, next_url, visited_urls, job_pages, all_discovered_elements,
                   pages_to_explore, current_url, depth, dj_result, h_classified,
                   h_enqueued, h_reported>>

\* classify the page; a job page is recorded and its related links enqueued,
\* any other page is searched for navigation and job links; a missing key
\* raises inside the try and abandons the entry
DjClassify ==
    /\ h_last' = "classify"
    /\ dj_pc = "classify"
    /\ UNCHANGED <<pg_vars, rs_vars, wk_vars, vq_vars, ax_vars, tr_vars, sj_vars>>
    /\ h_classified' = Append(h_classified, <<current_url, depth>>)
    /\ dj_pc' = "loop"
    /\ LET a == Analysis(current_url) IN
       IF "is_job_page" \notin DOMAIN a
          THEN UNCHANGED <<job_pages, pages_to_explore, all_discovered_elements,
                           next_url, page_url, h_enqueued, h_reported>>
       ELSE IF a.is_job_page
          THEN IF "confidence" \notin DOMAIN a
                  THEN UNCHANGED <<job_pages, pages_to_explore, all_discovered_elements,
                                   next_url, page_url, h_enqueued, h_reported>>
                  ELSE LET new == Enqueue(FindRelatedJobPages(current_url), depth + 1) IN
                       /\ h_reported' = h_reported \cup
                              ReportedFor(FindRelatedJobPages(current_url), current_url)
                       /\ job_pages' = Append(job_pages, JobPageRecord(current_url, depth, a))
                       /\ pages_to_explore' = pages_to_explore \o new
                       /\ h_enqueued' = h_enqueued \cup {e[1] : e \in Range(new)}
                       /\ next_url' = next_url + site.fanout
                       /\ UNCHANGED <<all_discovered_elements, page_url>>
          ELSE LET nav_links == FindJobNavigation(site.fanout)
                   job_links == FindJobLinksOnPage(current_url)
                   new == Enqueue(nav_links, depth + 1) \o Enqueue(job_links, depth + 1)
               IN  /\ pages_to_explore' = pages_to_explore \o new
                   /\ h_enqueued' = h_enqueued \cup {e[1] : e \in Range(new)}
                   /\ all_discovered_elements' =
                          all_discovered_elements \o FoundElements(current_url, site.fanout)
                   /\ h_reported' = h_reported
                          \cup Range(FoundElements(current_url, site.fanout))
                          \cup ReportedFor(job_links, current_url)
                   /\ next_url' = next_url + site.fanout
                   /\ page_url' = IF nav_links = <<>> THEN page_url
                                  ELSE nav_links[Len(nav_links)]
                   /\ UNCHANGED job_pages
    /\ UNCHANGED <<site, visited_urls, current_url, depth, dj_result, h_navigated,
                   h_failed>>

\* the loop ends: the result dict is returned
DjReturn ==
    /\ h_last' = "return"
    /\ dj_pc = "loop"
    /\ UNCHANGED <<pg_vars, rs_vars, wk_vars, vq_vars, ax_vars, tr_vars, sj_vars>>
    /\ ~LoopCondition
    /\ dj_result' = DiscoveryResult
    /\ dj_pc' = "done"
    /\ UNCHANGED <<site, page_url, next_url, visited_urls, job_pages,
                   all_discovered_elements, pages_to_explore, current_url, depth,
                   h_navigated, h_classified, h_enqueued, h_failed, h_reported>>

NextDiscovery ==
    \/ DjStart
    \/ DjSkip
    \/ DjVisit
    \/ DjGoto
    \/ DjClassify
    \/ DjReturn

SpecDiscovery == InitDiscovery /\ [][NextDiscovery]_vars

DjTypeOK ==
    /\ dj_pc \in {"start", "loop", "goto", "classify", "done", "raised"}
    /\ visited_urls \subseteq 0..next_url
    /\ \A i \in DOMAIN pages_to_explore : pages_to_explore[i][1] \in 0..next_url

(***************************************************************************)
(* Coordinate Resolver: the click point derived from a reported box, at    *)
(* the three places of the traversal code that carry the rule.             *)
(***************************************************************************)

\* the values a reported box is built from: around the threshold 100, odd and even
Coords == {0, 7, 100, 101, 250}

\* reported boxes: four values, and boxes of another length
Boxes == [1..4 -> Coords] \cup {<<>>, <<7, 100>>, <<0, 7, 100, 101, 250>>}

Callers == {"_find_job_navigation", "_find_job_links_on_page", "_click_element"}

\* a mutation of NavigationClickPoint: the origin+size form for every box
NavigationClickPointOriginSize(b) == <<b[1] + b[3] \div 2, b[2] + b[4] \div 2>>

\* _find_job_navigation, the click position of a box of four values
NavigationClickPoint(b) ==
    IF b[3] > 100 /\ b[4] > 100
       THEN <<(b[1] + b[3]) \div 2, (b[2] + b[4]) \div 2>>
       ELSE <<b[1] + b[3] \div 2, b[2] + b[4] \div 2>>

\* a mutation of JobLinkClickPoint: the corner form for every box
JobLinkClickPointCorners(b) == <<(b[1] + b[3]) \div 2, (b[2] + b[4]) \div 2>>

\* _find_job_links_on_page, the point of the href lookup
JobLinkClickPoint(b) ==
    IF b[3] > 100 /\ b[4] > 100
       THEN <<(b[1] + b[3]) \div 2, (b[2] + b[4]) \div 2>>
       ELSE <<b[1] + b[3] \div 2, b[2] + b[4] \div 2>>

\* SimpleJobDiscovery._click_element, the click position
SimpleClickPoint(b) ==
    IF b[3] > 100 /\ b[4] > 100
       THEN <<(b[1] + b[3]) \div 2, (b[2] + b[4]) \div 2>>
       ELSE <<b[1] + b[3] \div 2, b[2] + b[4] \div 2>>

\* an element with a reported box reaches one of the three places
InitResolver ==
    /\ rs_pc = "input"
    /\ caller \in Callers
    /\ bbox \in Boxes
    /\ click = <<>>
    /\ PaginationIdle
    /\ DiscoveryIdle
    /\ WalkerIdle
    /\ QueryIdle
    /\ ExecutorIdle
    /\ TwoRunsIdle
    /\ SimpleIdle

\* _find_job_navigation: "if len(bbox) == 4: ... else: continue", then the click
RsNavigation ==
    /\ rs_pc = "input"
    /\ caller = "_find_job_navigation"
    /\ click' = IF Len(bbox) = 4 THEN NavigationClickPoint(bbox) ELSE <<>>
    /\ rs_pc' = "resolved"
    /\ UNCHANGED <<caller, bbox>>
    /\ UNCHANGED <<pg_vars, dj_vars, wk_vars, vq_vars, ax_vars, tr_vars, sj_vars>>

\* _find_job_links_on_page: the same test, then the lookup at the point
RsJobLinks ==
    /\ rs_pc = "input"
    /\ caller = "_find_job_links_on_page"
    /\ click' = IF Len(bbox) = 4 THEN JobLinkClickPoint(bbox) ELSE <<>>
    /\ rs_pc' = "resolved"
    /\ UNCHANGED <<caller, bbox>>
    /\ UNCHANGED <<pg_vars, dj_vars, wk_vars, vq_vars, ax_vars, tr_vars, sj_vars>>

\* _click_element: a box of another length is not clicked and False is returned
RsSimple ==
    /\ rs_pc = "input"
    /\ caller = "_click_element"
    /\ click' = IF Len(bbox) = 4 THEN SimpleClickPoint(bbox) ELSE <<>>
    /\ rs_pc' = "resolved"
    /\ UNCHANGED <<caller, bbox>>
    /\ UNCHANGED <<pg_vars, dj_vars, wk_vars, vq_vars, ax_vars, tr_vars, sj_vars>>

NextResolver ==
    \/ RsNavigation
    \/ RsJobLinks
    \/ RsSimple

SpecResolver == InitResolver /\ [][NextResolver]_vars

(***************************************************************************)
(* Vision Query Client: the answers of the vision model.  An answer is a   *)
(* payload, alone or wrapped in a fenced code block.                       *)
(***************************************************************************)

\* "json": ```json payload ```, "bare": ``` payload ```, "open": ```json
\* payload with no closing fence, "none": the payload alone
Fences == {"none", "json", "bare", "open"}

\* elements the model reports to the traversal code and to the extractor
Careers == [label |-> "Careers", category |-> "JOB_NAVIGATION", bbox |-> <<10, 20, 110, 40>>]
Jobs == [label |-> "Jobs", category |-> "JOB_LISTING", bbox |-> <<200, 300, 400, 350>>]
Logo == [label |-> "Logo", category |-> "OTHER", bbox |-> <<5, 5>>]
NoLabel == [category |-> "JOB_NAVIGATION", bbox |-> <<10, 500, 60, 30>>]
NoBbox == [label |-> "Openings", category |-> "JOB_LISTING"]

\* elements the model reports to the viewport analyzer
Link == [type |-> "link", label |-> "Careers", bbox |-> <<10, 20, 110, 40>>,
         semantic_role |-> "navigation"]
Button == [type |-> "button", label |-> "Search", bbox |-> <<200, 300, 80, 30>>,
           semantic_role |-> "submit"]
NoRole == [type |-> "button", label |-> "Apply", bbox |-> <<200, 400, 80, 30>>]
Image == [type |-> "image", label |-> "Team", bbox |-> <<0, 0, 300, 200>>,
          semantic_role |-> "decoration"]
ShortBox == [type |-> "input", label |-> "Keyword", bbox |-> <<10, 20, 30>>,
             semantic_role |-> "search"]
NegativeBox == [type |-> "link", label |-> "Jobs", bbox |-> <<-5, 20, 60, 30>>,
                semantic_role |-> "navigation"]

List(items) == [kind |-> "list", items |-> items]
Dict(value) == [kind |-> "dict", value |-> value]
JSONDecodeError == [kind |-> "error"]

\* json.loads of a payload: a list, a dict, or JSONDecodeError for a payload
\* that is not JSON
JsonLoads(body) ==
    CASE body = "[]" -> List(<<>>)
      [] body = "[Careers]" -> List(<<Careers>>)
      [] body = "[Careers, Jobs]" -> List(<<Careers, Jobs>>)
      [] body = "[Jobs, Logo, Careers]" -> List(<<Jobs, Logo, Careers>>)
      [] body = "[Jobs, NoLabel, Careers]" -> List(<<Jobs, NoLabel, Careers>>)
      [] body = "[Jobs, NoBbox, Careers]" -> List(<<Jobs, NoBbox, Careers>>)
      [] body = "{}" -> Dict(<<>>)
      [] body = "{elements: []}" -> Dict([elements |-> List(<<>>)])
      [] body = "{elements: [Link, Button]}" -> Dict([elements |-> List(<<Link, Button>>)])
      [] body = "{elements: [Link, NoRole]}" -> Dict([elements |-> List(<<Link, NoRole>>)])
      [] body = "{elements: [Image, Link]}" -> Dict([elements |-> List(<<Image, Link>>)])
      [] body = "{elements: [Link, ShortBox]}" -> Dict([elements |-> List(<<Link, ShortBox>>)])
      [] body = "{elements: [Link, NegativeBox]}" ->
             Dict([elements |-> List(<<Link, NegativeBox>>)])
      [] body = "{elements: {}}" -> Dict([elements |-> Dict(<<>>)])
      [] body = "{items: [Link]}" -> Dict([items |-> List(<<Link>>)])
      [] body = "[Link]" -> List(<<Link>>)
      [] body \in {"json_job", "json_not", "json_job_no_confidence", "json_no_verdict"} ->
             Dict(VerifyJobListingPage(body))
      [] OTHER -> JSONDecodeError

\* the fence search of _find_job_navigation, _find_related_job_pages and
\* _extract_viewport_bboxes, with "in" and find: the text between a fence
\* and the next one when both are there, else the text as it is
ExtractJson(text) ==
    IF text.fence \in {"json", "bare"}
       THEN [fence |-> "none", body |-> text.body]
       ELSE text

\* the fence search of _parse_vision_response, with startswith and rfind:
\* the text between a leading fence and the last one when the last one
\* comes after the first, else the text as it is
StripFence(text) ==
    IF text.fence \in {"json", "bare"}
       THEN [fence |-> "none", body |-> text.body]
       ELSE text

\* json.loads of a text: a fence left in the text is not JSON
Loads(text) ==
    IF text.fence = "none" THEN JsonLoads(text.body) ELSE JSONDecodeError

(***************************************************************************)
(* Viewport Walker: the non-overlapping walk of _find_job_navigation       *)
(* (src/job_page_discovery.py) and of BBoxExtractor.extract_all_bboxes     *)
(* (src/extract_bboxes.py, constructed with verbose=True as it is in       *)
(* extract_bboxes_from_url).                                               *)
(***************************************************************************)

PageHeights == {0, 500, 1600, 2000}
ViewportHeights == {800, 1000}

\* what the model answers at a stop of the walk
WalkTexts ==
    [fence : {"none"},
     body : {"[]", "[Careers]", "[Careers, Jobs]", "[Jobs, Logo, Careers]",
             "[Jobs, NoLabel, Careers]", "[Jobs, NoBbox, Careers]",
             "{elements: []}", "{}", "I see no navigation."}]
    \cup { [fence |-> "json", body |-> "[Careers]"],
           [fence |-> "bare", body |-> "[Careers, Jobs]"],
           [fence |-> "open", body |-> "[Careers]"],
           [fence |-> "json", body |-> "I see no navigation."] }

\* the URLs the page can show after a click; 0 is the page the walk starts on
ClickTargets == {0, 1, 2}

\* what _check_hidden_menus can return
HiddenMenuUrls == { <<>>, <<3>> }

\* what _extract_hidden_menu_bboxes can return
HiddenMenuBboxes ==
    { <<>>,
      << [label |-> "Menu", category |-> "MENU_BUTTON", bbox |-> <<1200, 10, 1260, 50>>,
          hidden_menu |-> TRUE] >> }

Walkers == {"_find_job_navigation", "extract_all_bboxes"}

InitWalker ==
    /\ wk_page_height \in PageHeights
    /\ viewport_height \in ViewportHeights
    /\ wk_url = 0
    /\ walker \in Walkers
    /\ wk_pc = "start"
    /\ scroll_position = 0
    /\ viewport_count = 0
    /\ found_elements = <<>>
    /\ discovered_urls = <<>>
    /\ all_bboxes = <<>>
    /\ wk_response = NoText
    /\ h_stops = <<>>
    /\ h_clicked = <<>>
    /\ h_walk = "none"
    /\ PaginationIdle
    /\ DiscoveryIdle
    /\ ResolverIdle
    /\ QueryIdle
    /\ ExecutorIdle
    /\ TwoRunsIdle
    /\ SimpleIdle

\* a mutation of MoreStops: the stop at the page height is walked too
MoreStopsInclusive == scroll_position <= wk_page_height

\* "while scroll_position < page_height"
MoreStops == scroll_position < wk_page_height

\* a mutation of AlreadyFound: no label counts as seen
AlreadyFoundNever(found, label) == FALSE

\* "any(e['label'] == label for e in found_elements)"
AlreadyFound(found, label) == \E i \in DOMAIN found : found[i].label = label

\* the for loop over the elements of one answer in _find_job_navigation:
\* acc holds found_elements, discovered_urls, page.url and the clicks made so
\* far, and whether an exception has left the loop; outs[i] is the URL the
\* page shows after the click on the i-th element
RECURSIVE ProcessElements(_, _, _)
ProcessElements(elements, outs, acc) ==
    IF elements = <<>> \/ acc.raised
       THEN acc
       ELSE LET element == Head(elements)
                stored == [viewport_number |-> viewport_count,
                           scroll_position |-> scroll_position,
                           page_url |-> acc.url] @@ element
                kept == [acc EXCEPT !.found = Append(@, stored)]
                after ==
                    IF "label" \notin DOMAIN element
                       THEN [acc EXCEPT !.raised = TRUE]
                    ELSE IF AlreadyFound(acc.found, element.label)
                       THEN acc
                    ELSE IF "bbox" \notin DOMAIN element
                       THEN [kept EXCEPT !.raised = TRUE]
                    ELSE IF Len(element.bbox) # 4
                       THEN kept
                    ELSE [kept EXCEPT
                            !.clicked = Append(@, NavigationClickPoint(element.bbox)),
                            !.urls = IF Head(outs) # kept.url THEN Append(@, Head(outs)) ELSE @,
                            !.url = Head(outs)]
            IN  ProcessElements(Tail(elements), Tail(outs), after)

\* the walk moves to the next non-overlapping viewport
NextViewport ==
    /\ scroll_position' = scroll_position + viewport_height
    /\ viewport_count' = viewport_count + 1
    /\ wk_pc' = "walk"
    /\ h_walk' = "walking"

\* the outer handler of _find_job_navigation returns discovered_urls
NavExcept(how) ==
    /\ wk_pc' = "done"
    /\ h_walk' = how
    /\ UNCHANGED <<scroll_position, viewport_count>>

\* _find_job_navigation reads the viewport and the page height
NavStart ==
    /\ walker = "_find_job_navigation"
    /\ wk_pc = "start"
    /\ \/ wk_pc' = "walk" /\ h_walk' = "walking"
       \/ wk_pc' = "done" /\ h_walk' = "failed"
    /\ UNCHANGED <<wk_page_height, viewport_height, wk_url, walker, scroll_position,
                   viewport_count, found_elements, discovered_urls, all_bboxes,
                   wk_response, h_stops, h_clicked>>
    /\ UNCHANGED <<pg_vars, dj_vars, rs_vars, vq_vars, ax_vars, tr_vars, sj_vars>>

\* one stop of the walk of _find_job_navigation: scroll, screenshot, query,
\* and the handling of the answer
NavStop ==
    /\ walker = "_find_job_navigation"
    /\ wk_pc = "walk"
    /\ MoreStops
    /\ \/ \* scrolling or the screenshot raises
          /\ NavExcept("failed")
          /\ wk_response' = NoText
          /\ UNCHANGED <<wk_url, found_elements, discovered_urls, h_stops, h_clicked>>
       \/ \* the query raises
          /\ NavExcept("failed")
          /\ h_stops' = Append(h_stops, scroll_position)
          /\ wk_response' = NoText
          /\ UNCHANGED <<wk_url, found_elements, discovered_urls, h_clicked>>
       \/ \E text \in WalkTexts :
            LET elements == Loads(ExtractJson(text)) IN
            /\ h_stops' = Append(h_stops, scroll_position)
            /\ wk_response' = text
            /\ CASE elements.kind = "error" ->
                      /\ NextViewport
                      /\ UNCHANGED <<wk_url, found_elements, discovered_urls, h_clicked>>
                 [] elements.kind = "dict" ->
                      \* iterating a dict gives its keys, and a key has no ['label']
                      /\ IF DOMAIN elements.value = {}
                            THEN NextViewport
                            ELSE NavExcept("aborted")
                      /\ UNCHANGED <<wk_url, found_elements, discovered_urls, h_clicked>>
                 [] elements.kind = "list" ->
                      \E outs \in [1..Len(elements.items) -> ClickTargets] :
                        LET acc == ProcessElements(elements.items, outs,
                                       [found |-> found_elements, urls |-> discovered_urls,
                                        url |-> wk_url, clicked |-> h_clicked,
                                        raised |-> FALSE])
                        IN  /\ found_elements' = acc.found
                            /\ discovered_urls' = acc.urls
                            /\ wk_url' = acc.url
                            /\ h_clicked' = acc.clicked
                            /\ IF acc.raised THEN NavExcept("aborted") ELSE NextViewport
    /\ UNCHANGED <<wk_page_height, viewport_height, walker, all_bboxes>>
    /\ UNCHANGED <<pg_vars, dj_vars, rs_vars, vq_vars, ax_vars, tr_vars, sj_vars>>

\* after the last stop: the hidden-menu check when no URL was discovered,
\* then the return
NavMenus ==
    /\ walker = "_find_job_navigation"
    /\ wk_pc = "walk"
    /\ ~MoreStops
    /\ wk_pc' = "done"
    /\ h_walk' = "completed"
    /\ IF discovered_urls = <<>>
          THEN \E urls \in HiddenMenuUrls : discovered_urls' = urls
          ELSE UNCHANGED discovered_urls
    /\ UNCHANGED <<wk_page_height, viewport_height, wk_url, walker, scroll_position,
                   viewport_count, found_elements, all_bboxes, wk_response, h_stops,
                   h_clicked>>
    /\ UNCHANGED <<pg_vars, dj_vars, rs_vars, vq_vars, ax_vars, tr_vars, sj_vars>>

\* a mutation of BboxAbsolute: the scroll offset is added to all four values
BboxAbsoluteAllShifted(b, s) == <<b[1] + s, b[2] + s, b[3] + s, b[4] + s>>

\* element['bbox_absolute'] for the box b reported at scroll offset s
BboxAbsolute(b, s) == <<b[1], b[2] + s, b[3], b[4] + s>>

\* the metadata loop of _extract_viewport_bboxes runs through for the
\* element: it has a bbox of at least four values and a category, and a
\* label when its category is one of the three that are printed
ExtractorAccepts(element) ==
    /\ "bbox" \in DOMAIN element
    /\ Len(element.bbox) >= 4
    /\ "category" \in DOMAIN element
    /\ element.category \in {"JOB_NAVIGATION", "JOB_LISTING", "MENU_BUTTON"}
           => "label" \in DOMAIN element

\* the element with the metadata of its viewport (url and screenshot_path
\* are left out)
WithMetadata(element, s, n) ==
    [viewport_number |-> n,
     scroll_position |-> s,
     bbox_viewport |-> element.bbox,
     bbox_absolute |-> BboxAbsolute(element.bbox, s)] @@ element

\* _extract_viewport_bboxes: the elements of the answer with their metadata,
\* or the empty list when anything raised
ExtractViewportBboxes(text, s, n) ==
    LET elements == Loads(ExtractJson(text)) IN
    IF elements.kind = "list" /\ \A i \in DOMAIN elements.items :
                                     ExtractorAccepts(elements.items[i])
       THEN [i \in DOMAIN elements.items |-> WithMetadata(elements.items[i], s, n)]
       ELSE <<>>

\* extract_all_bboxes opens the URL and reads the viewport and the page
\* height; nothing of it is inside a try
ExtStart ==
    /\ walker = "extract_all_bboxes"
    /\ wk_pc = "start"
    /\ \/ wk_pc' = "walk" /\ h_walk' = "walking"
       \/ wk_pc' = "raised" /\ h_walk' = "failed"
    /\ UNCHANGED <<wk_page_height, viewport_height, wk_url, walker, scroll_position,
                   viewport_count, found_elements, discovered_urls, all_bboxes,
                   wk_response, h_stops, h_clicked>>
    /\ UNCHANGED <<pg_vars, dj_vars, rs_vars, vq_vars, ax_vars, tr_vars, sj_vars>>

\* one stop of the walk of extract_all_bboxes
ExtStop ==
    /\ walker = "extract_all_bboxes"
    /\ wk_pc = "walk"
    /\ MoreStops
    /\ \/ \* scrolling, the screenshot or writing it to disk raises
          /\ wk_pc' = "raised"
          /\ h_walk' = "failed"
          /\ wk_response' = NoText
          /\ UNCHANGED <<scroll_position, viewport_count, all_bboxes, h_stops>>
       \/ \* the query raises inside _extract_viewport_bboxes, which returns []
          /\ NextViewport
          /\ h_stops' = Append(h_stops, scroll_position)
          /\ wk_response' = NoText
          /\ UNCHANGED all_bboxes
       \/ \E text \in WalkTexts :
            /\ NextViewport
            /\ h_stops' = Append(h_stops, scroll_position)
            /\ wk_response' = text
            /\ all_bboxes' = all_bboxes \o
                   ExtractViewportBboxes(text, scroll_position, viewport_count)
    /\ UNCHANGED <<wk_page_height, viewport_height, wk_url, walker, found_elements,
                   discovered_urls, h_clicked>>
    /\ UNCHANGED <<pg_vars, dj_vars, rs_vars, vq_vars, ax_vars, tr_vars, sj_vars>>

\* after the last stop: back to the top, the hidden-menu pass, the return
ExtMenus ==
    /\ walker = "extract_all_bboxes"
    /\ wk_pc = "walk"
    /\ ~MoreStops
    /\ h_walk' = "completed"
    /\ \/ \* scrolling to the top or the screenshot of the pass raises
          /\ wk_pc' = "raised"
          /\ UNCHANGED all_bboxes
       \/ \E hidden_bboxes \in HiddenMenuBboxes :
            /\ wk_pc' = "done"
            /\ all_bboxes' = all_bboxes \o hidden_bboxes
    /\ UNCHANGED <<wk_page_height, viewport_height, wk_url, walker, scroll_position,
                   viewport_count, found_elements, discovered_urls, wk_response,
                   h_stops, h_clicked>>
    /\ UNCHANGED <<pg_vars, dj_vars, rs_vars, vq_vars, ax_vars, tr_vars, sj_vars>>

(***************************************************************************)
(* Vision Query Client: the functions that parse one answer.               *)
(***************************************************************************)

AnalyzerBodies ==
    {"{elements: []}", "{elements: [Link, Button]}", "{elements: [Link, NoRole]}",
     "{elements: [Image, Link]}", "{elements: [Link, ShortBox]}",
     "{elements: [Link, NegativeBox]}", "{elements: {}}", "{items: [Link]}",
     "[Link]", "I cannot see the page."}

ClassifierBodies ==
    {"json_job", "json_not", "json_job_no_confidence", "json_no_verdict",
     "text_yes", "text_other"}

RelatedBodies ==
    {"[]", "[Careers]", "[Careers, Jobs]", "[Jobs, Logo, Careers]",
     "[Jobs, NoLabel, Careers]", "[Jobs, NoBbox, Careers]", "{elements: []}",
     "No related pages."}

Consumers ==
    {"analyze_viewport_screenshot", "_verify_job_listing_page", "_find_related_job_pages"}

\* the answers the model can give to the function
TextsFor(c) ==
    [fence : Fences,
     body : CASE c = "analyze_viewport_screenshot" -> AnalyzerBodies
              [] c = "_verify_job_listing_page" -> ClassifierBodies
              [] c = "_find_related_job_pages" -> RelatedBodies]

\* a mutation of ValidateElement: the element type is not checked
ValidateElementAnyType(element) ==
    /\ {"type", "label", "bbox", "semantic_role"} \subseteq DOMAIN element
    /\ Len(element.bbox) = 4
    /\ \A i \in DOMAIN element.bbox : element.bbox[i] >= 0

\* _validate_element does not raise ValueError for the element
ValidateElement(element) ==
    /\ {"type", "label", "bbox", "semantic_role"} \subseteq DOMAIN element
    /\ element.type \in {"button", "input", "link", "clickable"}
    /\ Len(element.bbox) = 4
    /\ \A i \in DOMAIN element.bbox : element.bbox[i] >= 0

\* _parse_vision_response: the parsed dict, or the ValueError it raises
ParseVisionResponse(text) ==
    LET parsed == Loads(StripFence(text)) IN
    IF parsed.kind = "error"
       THEN [ok |-> FALSE, error |-> "Invalid JSON response"]
    ELSE IF parsed.kind # "dict"
       THEN [ok |-> FALSE, error |-> "Response must be a JSON object"]
    ELSE IF "elements" \notin DOMAIN parsed.value
       THEN [ok |-> FALSE, error |-> "Response must contain 'elements' field"]
    ELSE IF parsed.value.elements.kind # "list"
       THEN [ok |-> FALSE, error |-> "'elements' must be a list"]
    ELSE IF \E i \in DOMAIN parsed.value.elements.items :
                ~ValidateElement(parsed.value.elements.items[i])
       THEN [ok |-> FALSE, error |-> "Element is not valid"]
    ELSE [ok |-> TRUE, elements |-> parsed.value.elements.items]

\* a mutation of AnalyzeViewportScreenshot: a failure is returned as a
\* successful analysis with no element
AnalyzeViewportScreenshotEmptyOnError(text, fails) ==
    IF fails \/ ~ParseVisionResponse(text).ok
       THEN [success |-> TRUE, elements |-> <<>>]
       ELSE [success |-> TRUE, elements |-> ParseVisionResponse(text).elements]

\* analyze_viewport_screenshot: the analysis, or the error result of the
\* handler (page_url, timestamp, screenshot_path and viewport_size are left out)
AnalyzeViewportScreenshot(text, fails) ==
    IF fails
       THEN [success |-> FALSE, error |-> "page or query"]
    ELSE IF ~ParseVisionResponse(text).ok
       THEN [success |-> FALSE, error |-> ParseVisionResponse(text).error]
    ELSE [success |-> TRUE, elements |-> ParseVisionResponse(text).elements]

\* '"true" in result.lower() and "job" in result.lower()' for the payload
ContainsTrueAndJob(body) == body \in {"json_job", "json_job_no_confidence", "text_yes"}

\* _verify_job_listing_page on the text of an answer: json.loads is given
\* the whole text, so a fence makes it raise JSONDecodeError and the
\* fallback decides on the words of the text
VerifyJobListingPageText(text, fails) ==
    IF fails
       THEN VerifyJobListingPage("raise")
    ELSE IF text.fence = "none"
       THEN VerifyJobListingPage(text.body)
    ELSE [is_job_page |-> ContainsTrueAndJob(text.body), confidence |-> 50,
          page_type |-> "unknown"]

\* the href the page has under a point, 0 for none
HrefAt(point) ==
    CASE point = <<65, 40>> -> 1
      [] point = <<400, 475>> -> 2
      [] OTHER -> 0

\* the for loop of _find_related_job_pages over the elements of the answer:
\* the links collected, and whether an exception has left the loop
RECURSIVE RelatedLinks(_, _)
RelatedLinks(elements, acc) ==
    IF elements = <<>> \/ acc.raised
       THEN acc
       ELSE LET element == Head(elements)
                after ==
                    IF "bbox" \notin DOMAIN element \/ Len(element.bbox) < 4
                       THEN [acc EXCEPT !.raised = TRUE]
                       ELSE LET href == HrefAt(<<element.bbox[1] + element.bbox[3] \div 2,
                                                 element.bbox[2] + element.bbox[4] \div 2>>)
                            IN  IF href # 0
                                   THEN [acc EXCEPT !.links = Append(@, href)]
                                   ELSE acc
            IN  RelatedLinks(Tail(elements), after)

\* _find_related_job_pages on the text of an answer: the links, or [] from
\* one of its handlers
FindRelatedJobPagesText(text, fails) ==
    LET elements == Loads(ExtractJson(text))
        acc == RelatedLinks(elements.items, [links |-> <<>>, raised |-> FALSE])
    IN  IF fails \/ elements.kind # "list" \/ acc.raised
           THEN <<>>
           ELSE acc.links

\* the model has answered the query of one of the functions
InitQuery ==
    /\ vq_pc = "asked"
    /\ consumer \in Consumers
    /\ response \in TextsFor(consumer)
    /\ page_fails \in BOOLEAN
    /\ vq_result = <<>>
    /\ PaginationIdle
    /\ DiscoveryIdle
    /\ ResolverIdle
    /\ WalkerIdle
    /\ ExecutorIdle
    /\ TwoRunsIdle
    /\ SimpleIdle

VqAnalyze ==
    /\ vq_pc = "asked"
    /\ consumer = "analyze_viewport_screenshot"
    /\ vq_result' = AnalyzeViewportScreenshot(response, page_fails)
    /\ vq_pc' = "parsed"
    /\ UNCHANGED <<consumer, response, page_fails>>
    /\ UNCHANGED <<pg_vars, dj_vars, rs_vars, wk_vars, ax_vars, tr_vars, sj_vars>>

VqVerify ==
    /\ vq_pc = "asked"
    /\ consumer = "_verify_job_listing_page"
    /\ vq_result' = VerifyJobListingPageText(response, page_fails)
    /\ vq_pc' = "parsed"
    /\ UNCHANGED <<consumer, response, page_fails>>
    /\ UNCHANGED <<pg_vars, dj_vars, rs_vars, wk_vars, ax_vars, tr_vars, sj_vars>>

VqRelated ==
    /\ vq_pc = "asked"
    /\ consumer = "_find_related_job_pages"
    /\ vq_result' = FindRelatedJobPagesText(response, page_fails)
    /\ vq_pc' = "parsed"
    /\ UNCHANGED <<consumer, response, page_fails>>
    /\ UNCHANGED <<pg_vars, dj_vars, rs_vars, wk_vars, ax_vars, tr_vars, sj_vars>>

InitVision == InitWalker \/ InitQuery

NextVision ==
    \/ NavStart
    \/ NavStop
    \/ NavMenus
    \/ ExtStart
    \/ ExtStop
    \/ ExtMenus
    \/ VqAnalyze
    \/ VqVerify
    \/ VqRelated

SpecVision == InitVision /\ [][NextVision]_vars

(***************************************************************************)
(* Action Executor: ViewportAnalyzer.perform_action and the four actions   *)
(* it dispatches to.  A call is one step: the arguments and the behaviour  *)
(* of the page are drawn by Init, the action carries the call out.         *)
(***************************************************************************)
\* "hover" stands for every action type perform_action does not know
ActionTypes == {"click", "input", "select", "scroll", "hover"}

ExecBoxes ==
    {<<>>, <<7, 100>>, <<0, 7, 100, 101, 250>>, <<10, 20, 100, 40>>,
     <<0, 7, 101, 250>>, <<100, 100, 250, 250>>, <<7, 7, 101, 100>>}

\* a keyword argument left out, or given one of the values
Optional(key, values) == {NoArgs} \cup {[k \in {key} |-> v] : v \in values}

ArgSets ==
    {b @@ t @@ o @@ x @@ y :
        b \in Optional("bbox", ExecBoxes),
        t \in Optional("text", {"", "hello"}),
        o \in Optional("option_value", {"", "CA"}),
        x \in Optional("x", {0}),
        y \in Optional("y", {300})}

\* the page operations that raise during the call
FailureSets ==
    {{}, {"mouse.click"}, {"wait_for_load_state"},
     {"wait_for_load_state", "wait_for_timeout"}, {"keyboard.type"},
     {"select_option"}, {"select_option", "click"},
     {"select_option", "click", "keyboard.press"}, {"evaluate"}}

Pages ==
    [fails : FailureSets, field_keeps : BOOLEAN, typeahead_selects : BOOLEAN]

\* the argument is not None
Given(args, key) == key \in DOMAIN args

Op(name) == [op |-> name]
OpAt(name, point) == [op |-> name, at |-> point]

\* the page carries out ops in order until one of them raises
RECURSIVE Issue(_, _, _)
Issue(ops, fails, done) ==
    IF ops = <<>> THEN [ops |-> done, raised |-> FALSE]
    ELSE IF Head(ops).op \in fails
         THEN [ops |-> Append(done, Head(ops)), raised |-> TRUE]
         ELSE Issue(Tail(ops), fails, Append(done, Head(ops)))

\* an action ends by raising, or by returning its result
Raise(error, ops) == [raised |-> TRUE, error |-> error, ops |-> ops]
Return(res, ops) == [raised |-> FALSE, result |-> res, ops |-> ops]

\* str(e) of an exception a page operation raised
PageError == "page operation failed"

\* click_x = bbox[0] + bbox[2] // 2, click_y = bbox[1] + bbox[3] // 2
ExecutorClickPoint(b) == <<b[1] + b[3] \div 2, b[2] + b[4] \div 2>>

\* not bbox or len(bbox) != 4
BadBbox(args) ==
    IF Given(args, "bbox") THEN Len(args.bbox) # 4 ELSE TRUE

\* not text, not option_value
Empty(args, key) ==
    IF Given(args, key) THEN args[key] = "" ELSE TRUE

PerformClick(args, page) ==
    IF BadBbox(args) THEN Raise("bbox must be [x, y, width, height]", <<>>)
    ELSE LET point == ExecutorClickPoint(args.bbox)
             pressed == Issue(<<OpAt("mouse.click", point)>>, page.fails, <<>>)
             idle == Issue(<<Op("wait_for_load_state")>>, page.fails, pressed.ops)
             fallback == Issue(<<Op("wait_for_timeout")>>, page.fails, idle.ops)
             res == [success |-> TRUE, action_type |-> "click",
                     coordinates |-> point, bbox |-> args.bbox]
         IN  IF pressed.raised THEN Raise(PageError, pressed.ops)
             ELSE IF ~idle.raised THEN Return(res, idle.ops)
             ELSE IF fallback.raised THEN Raise(PageError, fallback.ops)
             ELSE Return(res, fallback.ops)

PerformInput(args, page) ==
    IF BadBbox(args) THEN Raise("bbox must be [x, y, width, height]", <<>>)
    ELSE IF Empty(args, "text")
    THEN Raise("text is required for input action", <<>>)
    ELSE LET point == ExecutorClickPoint(args.bbox)
             typed == Issue(<<OpAt("mouse.click", point), Op("wait_for_timeout"),
                              Op("keyboard.press"), Op("wait_for_timeout"),
                              Op("keyboard.type"), Op("wait_for_timeout")>>,
                            page.fails, <<>>)
             res == [success |-> TRUE, action_type |-> "input",
                     coordinates |-> point, bbox |-> args.bbox,
                     text |-> args.text]
         IN  IF typed.raised THEN Raise(PageError, typed.ops)
             ELSE Return(res, typed.ops)

PerformSelect(args, page) ==
    IF BadBbox(args) THEN Raise("bbox must be [x, y, width, height]", <<>>)
    ELSE IF Empty(args, "option_value")
    THEN Raise("option_value is required for select action", <<>>)
    ELSE LET point == ExecutorClickPoint(args.bbox)
             opened == Issue(<<OpAt("mouse.click", point), Op("wait_for_timeout")>>,
                             page.fails, <<>>)
             by_value == Issue(<<Op("select_option")>>, page.fails, opened.ops)
             by_text == Issue(<<Op("click")>>, page.fails, by_value.ops)
             by_keyboard == Issue(<<Op("keyboard.type"), Op("keyboard.press")>>,
                                  page.fails, by_text.ops)
             res == [success |-> TRUE, action_type |-> "select",
                     coordinates |-> point, bbox |-> args.bbox,
                     option_value |-> args.option_value]
         IN  IF opened.raised THEN Raise(PageError, opened.ops)
             ELSE IF ~by_value.raised THEN Return(res, by_value.ops)
             ELSE IF ~by_text.raised THEN Return(res, by_text.ops)
             ELSE IF by_keyboard.raised THEN Raise(PageError, by_keyboard.ops)
             ELSE Return(res, by_keyboard.ops)

PerformScroll(args, page) ==
    IF ~Given(args, "x") \/ ~Given(args, "y")
    THEN Raise("Both x and y coordinates are required for scroll action", <<>>)
    ELSE LET to == <<args.x, args.y>>
             scrolled == Issue(<<OpAt("evaluate", to), Op("wait_for_timeout")>>,
                               page.fails, <<>>)
             res == [success |-> TRUE, action_type |-> "scroll",
                     coordinates |-> to]
         IN  IF scrolled.raised THEN Raise(PageError, scrolled.ops)
             ELSE Return(res, scrolled.ops)

\* perform_action let the exception reach its caller
Propagated == [raised |-> TRUE]

\* the try block of perform_action
Dispatch(type, args, page) ==
    CASE type = "click" -> PerformClick(args, page)
      [] type = "input" -> PerformInput(args, page)
      [] type = "select" -> PerformSelect(args, page)
      [] type = "scroll" -> PerformScroll(args, page)
      [] OTHER -> Return([success |-> FALSE, error |-> "Unknown action type"],
                         <<>>)

\* a mutation of PerformAction: without the except clause
PerformActionNoExcept(type, args, page) ==
    LET out == Dispatch(type, args, page)
    IN  [result |-> IF out.raised THEN Propagated ELSE out.result,
         ops |-> out.ops]

PerformAction(type, args, page) ==
    LET out == Dispatch(type, args, page)
    IN  [result |-> IF out.raised
                    THEN [success |-> FALSE, error |-> out.error,
                          action_type |-> type]
                    ELSE out.result,
         ops |-> out.ops]

\* the page carried the operation out
CarriedOut(ops, fails, name) ==
    /\ name \notin fails
    /\ \E i \in 1..Len(ops) : ops[i].op = name

\* what the input field holds once the text was typed into it
Typed(text, page) == IF page.field_keeps THEN text ELSE "hell"

InitExecutor ==
    /\ PaginationIdle
    /\ DiscoveryIdle
    /\ ResolverIdle
    /\ WalkerIdle
    /\ QueryIdle
    /\ TwoRunsIdle
    /\ SimpleIdle
    /\ ax_pc = "called"
    /\ action_type \in ActionTypes
    /\ ax_args \in ArgSets
    /\ ax_page \in Pages
    /\ ax_result = <<>>
    /\ h_ops = <<>>
    /\ field_value = ""
    /\ option_selected = ""

\* perform_action(page, action_type, ...) of one of the types
AxCall(type) ==
    /\ ax_pc = "called"
    /\ action_type = type
    /\ LET done == PerformAction(action_type, ax_args, ax_page)
       IN  /\ ax_result' = done.result
           /\ h_ops' = done.ops
           /\ field_value' =
                IF type = "input" /\ CarriedOut(done.ops, ax_page.fails, "keyboard.type")
                THEN Typed(ax_args.text, ax_page)
                ELSE field_value
           /\ option_selected' =
                IF type = "select"
                   /\ \/ CarriedOut(done.ops, ax_page.fails, "select_option")
                      \/ CarriedOut(done.ops, ax_page.fails, "click")
                      \/ /\ CarriedOut(done.ops, ax_page.fails, "keyboard.press")
                         /\ ax_page.typeahead_selects
                THEN ax_args.option_value
                ELSE option_selected
    /\ ax_pc' = "returned"
    /\ UNCHANGED <<action_type, ax_args, ax_page>>
    /\ UNCHANGED <<pg_vars, dj_vars, rs_vars, wk_vars, vq_vars, tr_vars, sj_vars>>

AxClick == AxCall("click")
AxInput == AxCall("input")
AxSelect == AxCall("select")
AxScroll == AxCall("scroll")
AxUnknown == \E type \in ActionTypes \ {"click", "input", "select", "scroll"} : AxCall(type)

NextExecutor == AxClick \/ AxInput \/ AxSelect \/ AxScroll \/ AxUnknown

SpecExecutor == InitExecutor /\ [][NextExecutor]_vars

(***************************************************************************)
(* Two runs started through discover_all_job_pages, each on a page of its  *)
(* own.  The sets and lists a JobPageDiscovery instance holds are objects  *)
(* of the heap, reached through the instance's attributes; a step of a run *)
(* is one iteration of the loop of discover_job_pages.                     *)
(***************************************************************************)
Runs == {1, 2}

\* the sites the two runs explore
TwoRunSites ==
    {s \in Sites : /\ s.init_links \in {1, 2}
                   /\ s.fanout = 1
                   /\ s.back \in {"none", "self"}
                   /\ s.classifier \in {<<"json_job", "json_not">>, <<"json_not">>}
                   /\ s.fails \in {<<FALSE>>, <<FALSE, FALSE, TRUE>>}
                   /\ s.start_loads}

\* a mutation of Attributes: the four objects belong to the class
AttributesOfClass(n) ==
    [visited_urls |-> 1, job_pages |-> 2, navigation_links |-> 3,
     all_discovered_elements |-> 4]

\* JobPageDiscovery.__init__ with n objects on the heap: set() and the
\* three [] are new objects
Attributes(n) ==
    [visited_urls |-> n + 1, job_pages |-> n + 2, navigation_links |-> n + 3,
     all_discovered_elements |-> n + 4]

\* the URLs n, n + 1, ..., n + k - 1, not met so far in the run
FreshFrom(n, k) == [i \in 1..k |-> n + i - 1]

BackLinksOf(s, u) ==
    CASE s.back = "self" -> <<u>>
      [] s.back = "start" -> <<start_url>>
      [] OTHER -> <<>>

\* _find_job_navigation on the site s
NavigationOf(s, n, k) ==
    IF s.back = "dup" THEN FreshFrom(n, k) \o FreshFrom(n, k) ELSE FreshFrom(n, k)

ElementsOf(u, n, k) == [i \in 1..k |-> [label |-> n + i - 1, page_url |-> u]]

\* "if link not in self.visited_urls: pages_to_explore.append((link, depth + 1))"
EnqueueNew(links, d, visited) ==
    LET kept == SelectSeq(links, LAMBDA l : l \notin visited)
    IN  [i \in 1..Len(kept) |-> <<kept[i], d>>]

\* a run before its first step: the site, the instance's objects as they
\* are on the heap, and the locals of discover_job_pages
NewRun(s) ==
    [site |-> s, pc |-> "start", visited_urls |-> {}, job_pages |-> <<>>,
     all_discovered_elements |-> <<>>, pages_to_explore |-> <<>>, next_url |-> 1,
     result |-> Pending]

\* one step of discover_job_pages on the run r: stage 1, one iteration of
\* the while loop, or the return
RunStep(r) ==
    CASE r.pc = "start" ->
           IF r.site.start_loads
              THEN [r EXCEPT
                      !.pages_to_explore =
                          InitialFrontier(NavigationOf(r.site, r.next_url, r.site.init_links)),
                      !.all_discovered_elements =
                          @ \o ElementsOf(start_url, r.next_url, r.site.init_links),
                      !.next_url = @ + r.site.init_links,
                      !.pc = "loop"]
              ELSE [r EXCEPT !.pc = "raised"]
      [] r.pc = "loop" ->
           IF ~(/\ r.pages_to_explore # <<>>
                /\ Cardinality(r.visited_urls) < MAX_PAGES_TO_EXPLORE)
              THEN [r EXCEPT
                      !.pc = "done",
                      !.result =
                          [job_pages |-> r.job_pages,
                           total_pages_explored |-> Cardinality(r.visited_urls),
                           total_job_pages_found |-> Len(r.job_pages),
                           discovered_elements |-> r.all_discovered_elements,
                           total_elements_discovered |-> Len(r.all_discovered_elements)]]
              ELSE LET u == Head(r.pages_to_explore)[1]
                       d == Head(r.pages_to_explore)[2]
                       popped == [r EXCEPT !.pages_to_explore = Tail(@)]
                       seen == [popped EXCEPT !.visited_urls = @ \cup {u}]
                       a == VerifyJobListingPage(Cyclic(r.site.classifier, u))
                   IN  IF u \in r.visited_urls \/ d > MAX_DEPTH THEN popped
                       ELSE IF Cyclic(r.site.fails, u) THEN seen
                       ELSE IF "is_job_page" \notin DOMAIN a THEN seen
                       ELSE IF a.is_job_page
                          THEN IF "confidence" \notin DOMAIN a THEN seen
                               ELSE [seen EXCEPT
                                       !.job_pages = Append(@, JobPageRecord(u, d, a)),
                                       !.pages_to_explore =
                                           @ \o EnqueueNew(FreshFrom(r.next_url, r.site.fanout)
                                                               \o BackLinksOf(r.site, u),
                                                           d + 1, seen.visited_urls),
                                       !.next_url = @ + r.site.fanout]
                       ELSE [seen EXCEPT
                               !.pages_to_explore =
                                   @ \o EnqueueNew(NavigationOf(r.site, r.next_url, r.site.fanout),
                                                   d + 1, seen.visited_urls)
                                     \o EnqueueNew(BackLinksOf(r.site, u), d + 1,
                                                   seen.visited_urls),
                               !.all_discovered_elements =
                                   @ \o ElementsOf(u, r.next_url, r.site.fanout),
                               !.next_url = @ + r.site.fanout]
      [] OTHER -> r

\* the run i as discover_job_pages sees it: self.visited_urls, self.job_pages
\* and self.all_discovered_elements are read through the instance
RunOf(i) ==
    [site |-> tr_run[i].site, pc |-> tr_run[i].pc,
     visited_urls |-> heap[discovery[i].visited_urls],
     job_pages |-> heap[discovery[i].job_pages],
     all_discovered_elements |-> heap[discovery[i].all_discovered_elements],
     pages_to_explore |-> tr_run[i].pages_to_explore,
     next_url |-> tr_run[i].next_url, result |-> tr_run[i].result]

\* the other run has an instance and has not returned
UnderWay(i) == tr_run[i].pc \in {"start", "loop"}

InitTwoRuns ==
    /\ PaginationIdle
    /\ DiscoveryIdle
    /\ ResolverIdle
    /\ WalkerIdle
    /\ QueryIdle
    /\ ExecutorIdle
    /\ heap = <<>>
    /\ discovery = [i \in Runs |-> <<>>]
    /\ \E sites \in [Runs -> TwoRunSites] :
           tr_run = [i \in Runs |->
                        [site |-> sites[i], pc |-> "called", pages_to_explore |-> <<>>,
                         next_url |-> 1, result |-> Pending]]
    /\ h_interleaved = FALSE
    /\ SimpleIdle

\* discover_all_job_pages creates the instance of the run
TrConstruct(i) ==
    /\ tr_run[i].pc = "called"
    /\ discovery' = [discovery EXCEPT ![i] = Attributes(Len(heap))]
    /\ heap' = heap \o <<{}, <<>>, <<>>, <<>>>>
    /\ tr_run' = [tr_run EXCEPT ![i].pc = "start"]
    /\ UNCHANGED h_interleaved
    /\ UNCHANGED <<pg_vars, dj_vars, rs_vars, wk_vars, vq_vars, ax_vars, sj_vars>>

\* the run takes one step of discover_job_pages
TrStep(i) ==
    /\ UnderWay(i)
    /\ LET r == RunStep(RunOf(i)) IN
       /\ heap' = [heap EXCEPT
                     ![discovery[i].visited_urls] = r.visited_urls,
                     ![discovery[i].job_pages] = r.job_pages,
                     ![discovery[i].all_discovered_elements] = r.all_discovered_elements]
       /\ tr_run' = [tr_run EXCEPT
                       ![i] = [site |-> r.site, pc |-> r.pc,
                               pages_to_explore |-> r.pages_to_explore,
                               next_url |-> r.next_url, result |-> r.result]]
    /\ h_interleaved' = (h_interleaved \/ \E j \in Runs \ {i} : tr_run[j].pc = "loop")
    /\ UNCHANGED discovery
    /\ UNCHANGED <<pg_vars, dj_vars, rs_vars, wk_vars, vq_vars, ax_vars, sj_vars>>

NextTwoRuns == \E i \in Runs : TrConstruct(i) \/ TrStep(i)

SpecTwoRuns == InitTwoRuns /\ [][NextTwoRuns]_vars

(***************************************************************************)
(* Simple discovery: SimpleJobDiscovery.discover                           *)
(* (src/simple_job_discovery.py).  _explore_page calls itself as its last  *)
(* statement, so the innermost call's depth and current_url are the only   *)
(* locals that are read again; URLs are numbers and 0 is the start URL.    *)
(***************************************************************************)

\* largest max_depth a call is made with
MaxSimpleDepth == 2

\* the URLs the page can show after a click
SimpleUrls == 0..(MaxSimpleDepth + 1)

SimpleHeights == {500, 1600}
SimpleViewports == {800}

\* discover is called on a new instance
InitSimple ==
    /\ sj_pc = "called"
    /\ sj_max_depth \in 0..MaxSimpleDepth
    /\ sj_viewport_height \in SimpleViewports
    /\ sj_page_url = 0
    /\ sj_current_url = 0
    /\ sj_depth = 0
    /\ sj_visited_urls = {}
    /\ sj_job_pages = <<>>
    /\ sj_discovered_elements = <<>>
    /\ sj_page_height = 0
    /\ sj_scroll_position = 0
    /\ sj_element = <<>>
    /\ sj_result = Pending
    /\ h_sj_stops = <<>>
    /\ h_sj_explored = <<>>
    /\ h_sj_skipped = "no"
    /\ PaginationIdle
    /\ DiscoveryIdle
    /\ ResolverIdle
    /\ WalkerIdle
    /\ QueryIdle
    /\ ExecutorIdle
    /\ TwoRunsIdle

\* a page operation outside every try raises: discover raises
SjRaise ==
    /\ sj_pc' = "raised"
    /\ UNCHANGED <<sj_page_url, sj_current_url, sj_depth, sj_visited_urls,
                   sj_job_pages, sj_discovered_elements, sj_page_height,
                   sj_scroll_position, sj_element, sj_result, h_sj_stops,
                   h_sj_explored, h_sj_skipped>>

\* page.goto(start_url), then _explore_page(page, 0, max_depth)
SjDiscover ==
    /\ sj_pc = "called"
    /\ \/ SjRaise
       \/ /\ sj_pc' = "explore"
          /\ sj_page_url' = 0
          /\ sj_depth' = 0
          /\ UNCHANGED <<sj_current_url, sj_visited_urls, sj_job_pages,
                         sj_discovered_elements, sj_page_height, sj_scroll_position,
                         sj_element, sj_result, h_sj_stops, h_sj_explored,
                         h_sj_skipped>>
    /\ UNCHANGED <<sj_max_depth, sj_viewport_height>>
    /\ UNCHANGED <<pg_vars, dj_vars, rs_vars, wk_vars, vq_vars, ax_vars, tr_vars>>

\* a mutation of SimpleSkip: the depth is not tested
SimpleSkipAnyDepth(u, d) == u \in sj_visited_urls

\* "if current_url in self.visited_urls or depth > max_depth: return"
SimpleSkip(u, d) == u \in sj_visited_urls \/ d > sj_max_depth

\* the head of _explore_page: return at once, or mark the page visited
SjExplore ==
    /\ sj_pc = "explore"
    /\ sj_current_url' = sj_page_url
    /\ IF SimpleSkip(sj_page_url, sj_depth)
          THEN /\ sj_pc' = "return"
               /\ h_sj_skipped' = IF sj_page_url \in sj_visited_urls
                                     THEN "visited" ELSE "depth"
               /\ UNCHANGED <<sj_visited_urls, h_sj_explored>>
          ELSE /\ sj_pc' = "classify"
               /\ h_sj_skipped' = "no"
               /\ sj_visited_urls' = sj_visited_urls \cup {sj_page_url}
               /\ h_sj_explored' = Append(h_sj_explored, sj_page_url)
    /\ UNCHANGED <<sj_max_depth, sj_viewport_height, sj_page_url, sj_depth,
                   sj_job_pages, sj_discovered_elements, sj_page_height,
                   sj_scroll_position, sj_element, sj_result, h_sj_stops>>
    /\ UNCHANGED <<pg_vars, dj_vars, rs_vars, wk_vars, vq_vars, ax_vars, tr_vars>>

\* _check_if_job_page: the screenshot is outside the try, the query inside
SjClassify ==
    /\ sj_pc = "classify"
    /\ \/ SjRaise
       \/ \E is_job_page \in BOOLEAN :
            /\ sj_job_pages' =
                   IF is_job_page
                      THEN Append(sj_job_pages, [url |-> sj_current_url, depth |-> sj_depth])
                      ELSE sj_job_pages
            /\ sj_pc' = "find"
            /\ UNCHANGED <<sj_page_url, sj_current_url, sj_depth, sj_visited_urls,
                           sj_discovered_elements, sj_page_height, sj_scroll_position,
                           sj_element, sj_result, h_sj_stops, h_sj_explored,
                           h_sj_skipped>>
    /\ UNCHANGED <<sj_max_depth, sj_viewport_height>>
    /\ UNCHANGED <<pg_vars, dj_vars, rs_vars, wk_vars, vq_vars, ax_vars, tr_vars>>

\* _find_next_job_element reads the page height and starts at the top
SjFind ==
    /\ sj_pc = "find"
    /\ \/ SjRaise
       \/ /\ sj_page_height' \in SimpleHeights
          /\ sj_scroll_position' = 0
          /\ h_sj_stops' = <<>>
          /\ sj_pc' = "walk"
          /\ UNCHANGED <<sj_page_url, sj_current_url, sj_depth, sj_visited_urls,
                         sj_job_pages, sj_discovered_elements, sj_element, sj_result,
                         h_sj_explored, h_sj_skipped>>
    /\ UNCHANGED <<sj_max_depth, sj_viewport_height>>
    /\ UNCHANGED <<pg_vars, dj_vars, rs_vars, wk_vars, vq_vars, ax_vars, tr_vars>>

\* "while scroll_position <= page_height"
SimpleMoreStops == sj_scroll_position <= sj_page_height

\* one stop of the walk: scroll, screenshot, query; an element ends the walk,
\* a null answer or a failure inside the try moves to the next viewport
SjStop ==
    /\ sj_pc = "walk"
    /\ SimpleMoreStops
    /\ \/ SjRaise
       \/ /\ h_sj_stops' = Append(h_sj_stops, sj_scroll_position)
          /\ \/ /\ sj_element' = [page_url |-> sj_page_url,
                                  scroll_position |-> sj_scroll_position]
                /\ sj_pc' = "click"
                /\ UNCHANGED sj_scroll_position
             \/ /\ sj_scroll_position' = sj_scroll_position + sj_viewport_height
                /\ UNCHANGED <<sj_pc, sj_element>>
          /\ UNCHANGED <<sj_page_url, sj_current_url, sj_depth, sj_visited_urls,
                         sj_job_pages, sj_discovered_elements, sj_page_height,
                         sj_result, h_sj_explored, h_sj_skipped>>
    /\ UNCHANGED <<sj_max_depth, sj_viewport_height>>
    /\ UNCHANGED <<pg_vars, dj_vars, rs_vars, wk_vars, vq_vars, ax_vars, tr_vars>>

\* the walk is over without an element: None is returned and _explore_page ends
SjNoElement ==
    /\ sj_pc = "walk"
    /\ ~SimpleMoreStops
    /\ sj_element' = <<>>
    /\ sj_pc' = "return"
    /\ UNCHANGED <<sj_max_depth, sj_viewport_height, sj_page_url, sj_current_url,
                   sj_depth, sj_visited_urls, sj_job_pages, sj_discovered_elements,
                   sj_page_height, sj_scroll_position, sj_result, h_sj_stops,
                   h_sj_explored, h_sj_skipped>>
    /\ UNCHANGED <<pg_vars, dj_vars, rs_vars, wk_vars, vq_vars, ax_vars, tr_vars>>

\* the element is recorded and clicked; when the click was made and the URL
\* changed, _explore_page is called on the new page one level deeper
SjClick ==
    /\ sj_pc = "click"
    /\ \/ \* the element has no label, or the wait after the click raises
          SjRaise
       \/ /\ sj_discovered_elements' = Append(sj_discovered_elements, sj_element)
          /\ \/ \* _click_element returned False, or the URL is as it was
                /\ sj_pc' = "return"
                /\ UNCHANGED <<sj_page_url, sj_depth>>
             \/ \E new_url \in SimpleUrls \ {sj_current_url} :
                  /\ sj_page_url' = new_url
                  /\ sj_depth' = sj_depth + 1
                  /\ sj_pc' = "explore"
          /\ UNCHANGED <<sj_current_url, sj_visited_urls, sj_job_pages,
                         sj_page_height, sj_scroll_position, sj_element, sj_result,
                         h_sj_stops, h_sj_explored, h_sj_skipped>>
    /\ UNCHANGED <<sj_max_depth, sj_viewport_height>>
    /\ UNCHANGED <<pg_vars, dj_vars, rs_vars, wk_vars, vq_vars, ax_vars, tr_vars>>

\* every _explore_page has returned: discover returns its dict
SjReturn ==
    /\ sj_pc = "return"
    /\ sj_pc' = "done"
    /\ sj_result' = [job_pages |-> sj_job_pages,
                     visited_urls |-> sj_visited_urls,
                     discovered_elements |-> sj_discovered_elements,
                     total_elements |-> Len(sj_discovered_elements)]
    /\ UNCHANGED <<sj_max_depth, sj_viewport_height, sj_page_url, sj_current_url,
                   sj_depth, sj_visited_urls, sj_job_pages, sj_discovered_elements,
                   sj_page_height, sj_scroll_position, sj_element, h_sj_stops,
                   h_sj_explored, h_sj_skipped>>
    /\ UNCHANGED <<pg_vars, dj_vars, rs_vars, wk_vars, vq_vars, ax_vars, tr_vars>>

NextSimple ==
    \/ SjDiscover
    \/ SjExplore
    \/ SjClassify
    \/ SjFind
    \/ SjStop
    \/ SjNoElement
    \/ SjClick
    \/ SjReturn

SpecSimple == InitSimple /\ [][NextSimple]_vars

(***************************************************************************)
(* Pagination Exhauster: properties.                                       *)
(***************************************************************************)

\* the point (100, 200) lies inside the viewport
PointInViewport == 100 < viewport_size.width /\ 200 < viewport_size.height

C2_NoneGivesNoneWithZeroCount ==
    (pg_pc = "done" /\ h_queried /\ h_all_none)
        => /\ h_rounds = 1
           /\ h_native_clicks = 0
           /\ result = [mode |-> "none", total_clicks |-> 0]

\* C2 amended: when every vision answer of a finished call was NONE, the call
\* made one round and no click, total_clicks is 0, and its result is
\* {mode: "none"}, which carries no total_clicks field.
C2_NoneGivesBareNone ==
    (pg_pc = "done" /\ h_queried /\ h_all_none)
        => /\ h_rounds = 1
           /\ h_native_clicks = 0
           /\ total_clicks = 0
           /\ result = [mode |-> "none"]
           /\ "total_clicks" \notin DOMAIN result

C2_Witness ==
    /\ pg_pc = "done" /\ h_queried /\ h_all_none /\ h_page_ok
    /\ iteration > 0

\* C3: in a finished call, if at least one click occurred the result is mode
\* "vision_click" with the number of clicks made, and the result is mode
\* "none" only if no click occurred.
C3_ClicksAreReported ==
    pg_pc = "done"
        => /\ h_native_clicks > 0
                => result = [mode |-> "vision_click", total_clicks |-> h_native_clicks]
           /\ result.mode = "none" => h_native_clicks = 0

(***************************************************************************)
(* Navigation Traversal Engine: properties.                                *)
(***************************************************************************)

\* the run is under the weak fairness of a sequential program: it takes its
\* next step as long as it has one
FairSpecDiscovery == SpecDiscovery /\ WF_vars(NextDiscovery)

NoDuplicates(q) == \A i, j \in DOMAIN q : q[i] = q[j] => i = j

Urls(q) == [i \in DOMAIN q |-> q[i][1]]

\* the classifier answers is_job_page false for every URL of the site
NeverJobSite ==
    \A i \in DOMAIN site.classifier :
        LET a == VerifyJobListingPage(site.classifier[i])
        IN  "is_job_page" \in DOMAIN a /\ ~a.is_job_page

\* the call has ended: it returned its result, or the start page did not load
Terminated == dj_pc \in {"done", "raised"}

\* C4: on a site whose classifier always answers is_job_page false the call
\* terminates, and a returned result has total_job_pages_found = 0 and
\* total_pages_explored <= 50.
C4_NoJobSiteTerminates ==
    /\ [](NeverJobSite /\ dj_pc = "done"
            => /\ dj_result.total_job_pages_found = 0
               /\ dj_result.total_pages_explored <= 50)
    /\ (NeverJobSite => <>Terminated)

C4_Witness ==
    /\ NeverJobSite /\ dj_pc = "done"
    /\ dj_result.total_pages_explored = 50
    /\ dj_result.total_job_pages_found = 0
    /\ pages_to_explore # <<>>

\* C5: the visited set never holds more than 50 URLs, and a frontier entry is
\* taken only when the frontier is non-empty and fewer than 50 URLs are
\* visited.
C5_PageCap ==
    /\ [](Cardinality(visited_urls) <= 50)
    /\ [][Len(pages_to_explore') < Len(pages_to_explore)
            => pages_to_explore # <<>> /\ Cardinality(visited_urls) < 50]_vars

C5_Witness ==
    /\ dj_pc = "done"
    /\ Cardinality(visited_urls) = 50
    /\ pages_to_explore # <<>>

\* C6: no URL is navigated to or classified twice, every visited URL was
\* enqueued, and the visited count does not exceed the number of distinct
\* enqueued URLs.
C6_ExploredAtMostOnce ==
    /\ NoDuplicates(h_navigated)
    /\ NoDuplicates(Urls(h_classified))
    /\ visited_urls \subseteq h_enqueued
    /\ Cardinality(visited_urls) <= Cardinality(h_enqueued)
    /\ Len(h_navigated) <= Cardinality(visited_urls)

\* an entry whose URL was explored before has just been dequeued and dropped
C6_Witness ==
    /\ h_last = "skip"
    /\ depth <= MAX_DEPTH
    /\ current_url \in Range(h_navigated)

C8_SkipChangesNothingElse ==
    /\ [][(/\ dj_pc = "loop"
           /\ Len(pages_to_explore') < Len(pages_to_explore)
           /\ \/ Head(pages_to_explore)[1] \in visited_urls
              \/ Head(pages_to_explore)[2] > 3)
            => /\ pages_to_explore' = Tail(pages_to_explore)
               /\ dj_pc' = "loop"
               /\ UNCHANGED <<visited_urls, job_pages, all_discovered_elements,
                              page_url, h_navigated, h_classified, h_enqueued>>]_vars
    /\ [][(/\ dj_pc = "loop"
           /\ Len(pages_to_explore') < Len(pages_to_explore)
           /\ Head(pages_to_explore)[1] \notin visited_urls
           /\ Head(pages_to_explore)[2] = 3)
            => /\ visited_urls' = visited_urls \cup {Head(pages_to_explore)[1]}
               /\ dj_pc' = "goto"]_vars

\* an entry of depth 4 was dropped after a page of depth 3 was classified
C8_Witness ==
    /\ h_last = "skip"
    /\ depth = 4
    /\ current_url \notin visited_urls
    /\ \E i \in DOMAIN h_classified : h_classified[i][2] = 3

\* C9: a record is in job_pages exactly for the pages that were classified
\* as a job page, it carries the URL and depth of the entry, every recorded
\* URL is visited, and no URL has two records.
C9_RecordIffClassifiedJob ==
    /\ \A i \in DOMAIN h_classified :
           LET a == Analysis(h_classified[i][1])
           IN  ("is_job_page" \in DOMAIN a /\ a.is_job_page)
                   <=> \E j \in DOMAIN job_pages :
                           /\ job_pages[j].url = h_classified[i][1]
                           /\ job_pages[j].depth = h_classified[i][2]
    /\ \A j \in DOMAIN job_pages :
           /\ job_pages[j].url \in visited_urls
           /\ \E i \in DOMAIN h_classified : h_classified[i][1] = job_pages[j].url
    /\ \A j, k \in DOMAIN job_pages : job_pages[j].url = job_pages[k].url => j = k

\* C10: a failing navigation abandons only its entry: the step leaves the
\* records and the frontier as they are and the run goes on at the loop
\* head, which next takes the head of the frontier if the loop condition
\* holds; no failed URL has a record, and the run has not ended by raising.
C10_NavigationFailureAbandonsEntry ==
    /\ [][dj_pc = "goto" /\ Cyclic(site.fails, current_url)
            => /\ dj_pc' = "loop"
               /\ UNCHANGED <<job_pages, pages_to_explore, visited_urls, page_url>>]_vars
    /\ [][(/\ h_last = "goto_failed"
           /\ pages_to_explore # <<>>
           /\ Cardinality(visited_urls) < 50)
            => /\ pages_to_explore' = Tail(pages_to_explore)
               /\ current_url' = Head(pages_to_explore)[1]]_vars
    /\ [](/\ \A j \in DOMAIN job_pages : job_pages[j].url \notin h_failed
          /\ h_failed # {} => dj_pc # "raised")

\* after a failed navigation a later entry is being navigated to
C10_Witness ==
    /\ h_failed # {}
    /\ dj_pc = "goto"
    /\ current_url \notin h_failed
    /\ ~Cyclic(site.fails, current_url)

\* C11: no failure of a single step, the first navigation to the start URL
\* included, makes the discovery run end by raising to its caller.
C11_NoStepFailureRaises == dj_pc # "raised"

\* the page is there for stage 1 and is lost afterwards: every navigation of
\* the loop fails
PageLostAfterStart ==
    /\ site.start_loads
    /\ \A i \in DOMAIN site.fails : site.fails[i]

\* C12: when the page is lost during a run the traversal does not end by
\* returning a normal result.
C12_LostPageIsAHardFailure ==
    (PageLostAfterStart /\ h_failed # {}) => dj_pc # "done"

(***************************************************************************)
(* Coordinate Resolver: properties.                                        *)
(***************************************************************************)

\* the reported box has four values with the third and the fourth above 100
CornerForm == Len(bbox) = 4 /\ bbox[3] > 100 /\ bbox[4] > 100

\* the reported box has four values with the third or the fourth at most 100
OriginSizeForm == Len(bbox) = 4 /\ (bbox[3] <= 100 \/ bbox[4] <= 100)

\* C13 as stated: for a box [x1, y1, x2, y2] with x2 > 100 and y2 > 100 the
\* click point is exactly ((x1 + x2) / 2, (y1 + y2) / 2).
C13_CornerFormExactMidpoint ==
    (rs_pc = "resolved" /\ CornerForm)
        => /\ Len(click) = 2
           /\ 2 * click[1] = bbox[1] + bbox[3]
           /\ 2 * click[2] = bbox[2] + bbox[4]

\* C13 amended: for a box [x1, y1, x2, y2] with x2 > 100 and y2 > 100 the
\* click point is ((x1 + x2) / 2, (y1 + y2) / 2) with each coordinate
\* rounded down to an integer.
C13_CornerFormMidpointRoundedDown ==
    (rs_pc = "resolved" /\ CornerForm)
        => /\ Len(click) = 2
           /\ 2 * click[1] <= bbox[1] + bbox[3] /\ bbox[1] + bbox[3] < 2 * click[1] + 2
           /\ 2 * click[2] <= bbox[2] + bbox[4] /\ bbox[2] + bbox[4] < 2 * click[2] + 2

\* a corner-form box with odd sums was resolved by _find_job_navigation
C13_Witness ==
    /\ rs_pc = "resolved"
    /\ caller = "_find_job_navigation"
    /\ bbox = <<0, 7, 101, 250>>
    /\ click = <<50, 128>>

\* C14 as stated: for a box [x, y, w, h] with w <= 100 or h <= 100 the click
\* point is exactly (x + w / 2, y + h / 2).
C14_OriginSizeExactCentre ==
    (rs_pc = "resolved" /\ OriginSizeForm)
        => /\ Len(click) = 2
           /\ 2 * click[1] = 2 * bbox[1] + bbox[3]
           /\ 2 * click[2] = 2 * bbox[2] + bbox[4]

\* C14 amended: for a box [x, y, w, h] with w <= 100 or h <= 100 the click
\* point is (x + w / 2, y + h / 2) with each half rounded down to an integer.
C14_OriginSizeCentreRoundedDown ==
    (rs_pc = "resolved" /\ OriginSizeForm)
        => /\ Len(click) = 2
           /\ 2 * (click[1] - bbox[1]) <= bbox[3] /\ bbox[3] < 2 * (click[1] - bbox[1]) + 2
           /\ 2 * (click[2] - bbox[2]) <= bbox[4] /\ bbox[4] < 2 * (click[2] - bbox[2]) + 2

\* an origin+size box with an odd width was resolved by _find_job_links_on_page
C14_Witness ==
    /\ rs_pc = "resolved"
    /\ caller = "_find_job_links_on_page"
    /\ bbox = <<100, 250, 7, 250>>
    /\ click = <<103, 375>>

(***************************************************************************)
(* Viewport Walker and Vision Query Client: properties.                    *)
(***************************************************************************)

\* the elements the latest step of the walk added to all_bboxes
NewBboxes == SubSeq(all_bboxes', Len(all_bboxes) + 1, Len(all_bboxes'))

\* C15: every element with a box of four values that a stop of the extractor
\* at scroll offset s stores carries the reported box as bbox_viewport and,
\* as bbox_absolute, that box with s added to its 2nd and 4th value and its
\* 1st and 3rd value unchanged.
C15_AbsoluteBoxShiftsVerticalOnly ==
    [][(walker = "extract_all_bboxes" /\ Len(h_stops') = Len(h_stops) + 1)
         => \A j \in DOMAIN NewBboxes :
              LET reported == Loads(ExtractJson(wk_response')).items[j].bbox
                  stored == NewBboxes[j]
              IN  Len(reported) = 4 =>
                    /\ stored.bbox_viewport = reported
                    /\ stored.bbox_absolute[1] = reported[1]
                    /\ stored.bbox_absolute[2] = reported[2] + scroll_position
                    /\ stored.bbox_absolute[3] = reported[3]
                    /\ stored.bbox_absolute[4] = reported[4] + scroll_position
                    /\ Len(stored.bbox_absolute) = 4]_vars

\* the extractor has stored the Careers link reported at the second stop
C15_Witness ==
    /\ walker = "extract_all_bboxes"
    /\ \E i \in DOMAIN all_bboxes :
           /\ "bbox_absolute" \in DOMAIN all_bboxes[i]
           /\ all_bboxes[i].scroll_position = 800
           /\ all_bboxes[i].bbox_viewport = <<10, 20, 110, 40>>
           /\ all_bboxes[i].bbox_absolute = <<10, 820, 110, 840>>

\* C16: the walk queries the vision model at the scroll positions 0, V, 2V,
\* ... in this order, once each and only below the page height H, and a
\* walk that has run to its end has left out no such position.
C16_StopsAreTheMultiplesBelowHeight ==
    /\ \A i \in DOMAIN h_stops :
           /\ h_stops[i] = (i - 1) * viewport_height
           /\ h_stops[i] < wk_page_height
    /\ h_walk = "completed" => Len(h_stops) * viewport_height >= wk_page_height

\* the walk of a page of height 2000 with viewport height 800 has ended
C16_Witness ==
    /\ walker = "_find_job_navigation"
    /\ h_walk = "completed"
    /\ wk_page_height = 2000
    /\ viewport_height = 800
    /\ h_stops = <<0, 800, 1600>>

\* the payload of the answer without its fence
Unfenced(text) == [fence |-> "none", body |-> text.body]

\* the answer wraps its payload in a ```json fence or in a bare ``` fence
Fenced(text) == text.fence \in {"json", "bare"}

\* C17: an answer whose payload is wrapped in a ```json fence or a bare ```
\* fence is parsed to the same result as the payload alone: by the walk, by
\* the viewport analyzer, by the related-page lookup and by the job-page
\* classification (same is_job_page, confidence and page_type).
C17_FencedParsesAsUnfenced ==
    /\ \A text \in WalkTexts :
           Fenced(text) => Loads(ExtractJson(text)) = Loads(Unfenced(text))
    /\ (vq_pc = "parsed" /\ Fenced(response)) =>
           vq_result =
               CASE consumer = "analyze_viewport_screenshot" ->
                        AnalyzeViewportScreenshot(Unfenced(response), page_fails)
                 [] consumer = "_verify_job_listing_page" ->
                        VerifyJobListingPageText(Unfenced(response), page_fails)
                 [] consumer = "_find_related_job_pages" ->
                        FindRelatedJobPagesText(Unfenced(response), page_fails)

\* the answer came, and its payload, fence removed if closed, is not JSON
NotJson(text) == text # NoText /\ Loads(ExtractJson(text)).kind = "error"

\* a stop of the walk whose answer is not JSON adds no element and no URL,
\* and the walk goes on at the next stop
InvalidJsonStopIsSkipped ==
    (wk_pc = "walk" /\ Len(h_stops') = Len(h_stops) + 1 /\ NotJson(wk_response'))
        => /\ found_elements' = found_elements
           /\ discovered_urls' = discovered_urls
           /\ all_bboxes' = all_bboxes
           /\ h_clicked' = h_clicked
           /\ wk_pc' = "walk"
           /\ scroll_position' = scroll_position + viewport_height

\* analyze_viewport_screenshot has returned for an answer that is not JSON
AnalyzedInvalidJson ==
    /\ vq_pc = "parsed"
    /\ consumer = "analyze_viewport_screenshot"
    /\ ~page_fails
    /\ NotJson(response)

ReportedList(text) ==
    IF Loads(ExtractJson(text)).kind = "list"
       THEN Loads(ExtractJson(text)).items
       ELSE <<>>

\* the answer is JSON but not of the expected form: not a list, or a list
\* with an element that has no label or no bbox
SchemaViolation(text) ==
    /\ text # NoText
    /\ \/ Loads(ExtractJson(text)).kind = "dict"
       \/ \E i \in DOMAIN ReportedList(text) :
              \/ "label" \notin DOMAIN ReportedList(text)[i]
              \/ "bbox" \notin DOMAIN ReportedList(text)[i]

\* the point of the related-page lookup for the element
RelatedPoint(element) ==
    <<element.bbox[1] + element.bbox[3] \div 2, element.bbox[2] + element.bbox[4] \div 2>>

\* the i-th reported element and all before it have a label and a box of
\* four values, and the page has an href under the i-th
ExtractedBeforeViolation(text, i) ==
    /\ \A j \in 1..i : /\ {"label", "bbox"} \subseteq DOMAIN ReportedList(text)[j]
                       /\ Len(ReportedList(text)[j].bbox) = 4
    /\ HrefAt(RelatedPoint(ReportedList(text)[i])) # 0

\* C19: an answer that is JSON but not of the expected form (not a list, an
\* element without label or bbox) never ends the enclosing loop: after a
\* stop of the walk of _find_job_navigation with such an answer the walk
\* goes on at the next stop, and the related-page lookup returns the links
\* it had extracted from the elements before the bad one.
C19_SchemaViolationEndsNoLoop ==
    /\ [][(/\ walker = "_find_job_navigation"
           /\ wk_pc = "walk"
           /\ Len(h_stops') = Len(h_stops) + 1
           /\ SchemaViolation(wk_response'))
            => /\ wk_pc' = "walk"
               /\ scroll_position' = scroll_position + viewport_height]_vars
    /\ []((/\ vq_pc = "parsed"
           /\ consumer = "_find_related_job_pages"
           /\ ~page_fails
           /\ SchemaViolation(response))
            => \A i \in DOMAIN ReportedList(response) :
                   ExtractedBeforeViolation(response, i)
                       => \E k \in DOMAIN vq_result :
                              vq_result[k] = HrefAt(RelatedPoint(ReportedList(response)[i])))

\* the element is not valid for the viewport analyzer: a required field is
\* missing, the type is not one of the four, or the bbox is not four
\* non-negative numbers
InvalidElement(element) ==
    \/ \E field \in {"type", "label", "bbox", "semantic_role"} : field \notin DOMAIN element
    \/ element.type \notin {"button", "input", "link", "clickable"}
    \/ Len(element.bbox) # 4
    \/ \E i \in DOMAIN element.bbox : element.bbox[i] < 0

\* the answer is a JSON object with a list of elements one of which is not valid
HasInvalidElement(text) ==
    LET parsed == JsonLoads(text.body) IN
    /\ parsed.kind = "dict"
    /\ "elements" \in DOMAIN parsed.value
    /\ parsed.value.elements.kind = "list"
    /\ \E i \in DOMAIN parsed.value.elements.items :
           InvalidElement(parsed.value.elements.items[i])

\* C20: when one element of an answer to the viewport analyzer is not valid,
\* the result of the analysis is a failure and returns no element of the
\* answer, the valid ones included.
C20_AnalyzerFailsClosed ==
    (vq_pc = "parsed" /\ consumer = "analyze_viewport_screenshot"
         /\ HasInvalidElement(response))
        => /\ vq_result.success = FALSE
           /\ "elements" \notin DOMAIN vq_result

\* the analyzer has returned for an answer with a valid element followed by
\* one without semantic_role
C20_Witness ==
    /\ vq_pc = "parsed"
    /\ consumer = "analyze_viewport_screenshot"
    /\ ~page_fails
    /\ response = [fence |-> "json", body |-> "{elements: [Link, NoRole]}"]
    /\ vq_result.success = FALSE

(***************************************************************************)
(* Action Executor: properties.                                            *)
(***************************************************************************)
\* the arguments fail the validation of the action that was asked for
ValidationFails ==
    \/ /\ action_type \in {"click", "input", "select"}
       /\ \/ ~Given(ax_args, "bbox")
          \/ Given(ax_args, "bbox") /\ Len(ax_args.bbox) # 4
    \/ /\ action_type = "input"
       /\ \/ ~Given(ax_args, "text")
          \/ Given(ax_args, "text") /\ ax_args.text = ""
    \/ /\ action_type = "select"
       /\ \/ ~Given(ax_args, "option_value")
          \/ Given(ax_args, "option_value") /\ ax_args.option_value = ""
    \/ /\ action_type = "scroll"
       /\ ~Given(ax_args, "x") \/ ~Given(ax_args, "y")

UnknownType == action_type \notin {"click", "input", "select", "scroll"}

\* the operation issued last raised, so that nothing in the action caught it
LastOpRaised ==
    /\ h_ops # <<>>
    /\ h_ops[Len(h_ops)].op \in ax_page.fails

\* C21: perform_action never raises to its caller: a call that fails, because
\* its arguments do not pass validation, its action type is unknown or a page
\* operation raised, returns a result with success false and an error
\* message; and a call whose arguments fail validation issues no page
\* operation.
C21_FailuresAreReturned ==
    ax_pc = "returned" =>
        /\ ax_result # Propagated
        /\ (ValidationFails \/ UnknownType \/ LastOpRaised) =>
               /\ ax_result.success = FALSE
               /\ ax_result.error # ""
        /\ ValidationFails => h_ops = <<>>

C21_Witness ==
    /\ ax_pc = "returned"
    /\ action_type = "select"
    /\ LastOpRaised
    /\ Len(h_ops) = 6
    /\ ax_result.success = FALSE

\* the call issued the page operation
Issued(name) == \E i \in 1..Len(h_ops) : h_ops[i].op = name

\* C22: after typing, the input action re-reads the value of the field and
\* its result reports whether that value equals the requested text.
C22_InputIsVerified ==
    (/\ ax_pc = "returned"
     /\ action_type = "input"
     /\ CarriedOut(h_ops, ax_page.fails, "keyboard.type")) =>
        /\ Issued("input_value")
        /\ "input_verification" \in DOMAIN ax_result
        /\ ax_result.input_verification.text_matches
               = (field_value = ax_args.text)

\* C23: the select action tries selection by value, then a click on the
\* option's text, then keyboard type-ahead, each later method only when every
\* earlier one failed; when the three methods are used up and the option is
\* not selected the result has success false, and nothing is raised.
C23_ExhaustedSelectIsAFailure ==
    (ax_pc = "returned" /\ action_type = "select") =>
        /\ ax_result # Propagated
        /\ Issued("click") =>
               Issued("select_option") /\ "select_option" \in ax_page.fails
        /\ Issued("keyboard.type") =>
               /\ Issued("click")
               /\ {"select_option", "click"} \subseteq ax_page.fails
        /\ (Issued("keyboard.type") /\ option_selected # ax_args.option_value) =>
               ax_result.success = FALSE

\* C24: for every bbox of 4 numbers, the point at which the click, input and
\* select actions click is the point the Coordinate Resolver gives for that
\* bbox, the one the traversal engine clicks at.
C24_ExecutorClicksAtResolverPoint ==
    (/\ ax_pc = "returned"
     /\ action_type \in {"click", "input", "select"}
     /\ Issued("mouse.click")) =>
        /\ h_ops[1].op = "mouse.click"
        /\ h_ops[1].at = NavigationClickPoint(ax_args.bbox)

(***************************************************************************)
(* Traversal loops over the reported elements: properties.                 *)
(***************************************************************************)
\* the answer is a list whose elements all have a label and a bbox, and the
\* bbox of one of them does not have exactly 4 values
HasWrongLengthBbox(text) ==
    /\ ReportedList(text) # <<>>
    /\ ~SchemaViolation(text)
    /\ \E i \in DOMAIN ReportedList(text) : Len(ReportedList(text)[i].bbox) # 4

\* the clicks the latest stop of the walk has made
NewClicks == SubSeq(h_clicked', Len(h_clicked) + 1, Len(h_clicked'))

\* C25: in the element loops of the traversal an element whose bbox does not
\* have exactly 4 values is skipped: no click and no point lookup is made
\* for it, nothing is raised, and the other elements of the same answer are
\* still processed.  Stated for the navigation walk (the walk goes on, every
\* click it made is the click of a 4-value element) and for the related-page
\* lookup (the links under the 4-value elements are returned).
C25_WrongLengthBboxIsSkipped ==
    /\ [][(/\ walker = "_find_job_navigation"
           /\ wk_pc = "walk"
           /\ Len(h_stops') = Len(h_stops) + 1
           /\ HasWrongLengthBbox(wk_response'))
            => /\ wk_pc' = "walk"
               /\ \A k \in DOMAIN NewClicks :
                      \E i \in DOMAIN ReportedList(wk_response') :
                          /\ Len(ReportedList(wk_response')[i].bbox) = 4
                          /\ NewClicks[k] =
                                 NavigationClickPoint(ReportedList(wk_response')[i].bbox)]_vars
    /\ []((/\ vq_pc = "parsed"
           /\ consumer = "_find_related_job_pages"
           /\ ~page_fails
           /\ HasWrongLengthBbox(response))
            => \A i \in DOMAIN ReportedList(response) :
                   (/\ Len(ReportedList(response)[i].bbox) = 4
                    /\ HrefAt(RelatedPoint(ReportedList(response)[i])) # 0)
                       => \E k \in DOMAIN vq_result :
                              vq_result[k] = HrefAt(RelatedPoint(ReportedList(response)[i])))

\* C26: every element the vision model reported during a discovery run, in
\* the navigation walk, the job-link lookup and the related-page lookup
\* alike, is in discovered_elements of the result, and
\* total_elements_discovered is the length of that list.
C26_EveryReportedElementIsInResult ==
    dj_pc = "done" =>
        /\ \A e \in h_reported :
               \E i \in DOMAIN dj_result.discovered_elements :
                   /\ dj_result.discovered_elements[i].label = e.label
                   /\ dj_result.discovered_elements[i].page_url = e.page_url
        /\ dj_result.total_elements_discovered = Len(dj_result.discovered_elements)

(***************************************************************************)
(* Two runs: properties.                                                   *)
(***************************************************************************)
\* the run r carried on alone until it returns or raises
RECURSIVE Alone(_)
Alone(r) == IF r.pc \in {"start", "loop"} THEN Alone(RunStep(r)) ELSE r

\* the objects the instance of run i holds
ObjectsOf(i) == {discovery[i][a] : a \in DOMAIN discovery[i]}

\* C27: two discovery runs started through discover_all_job_pages, one after
\* the other or interleaved on different pages, share no state: their
\* instances hold no object in common, and the result of each run is the
\* result it gives when it runs alone.
C27_RunsShareNoState ==
    /\ \A i, j \in Runs : i # j => ObjectsOf(i) \cap ObjectsOf(j) = {}
    /\ \A i \in Runs :
           tr_run[i].pc = "done" => tr_run[i].result = Alone(NewRun(tr_run[i].site)).result

C27_Witness ==
    /\ h_interleaved
    /\ \A i \in Runs : tr_run[i].pc = "done"
    /\ tr_run[1].result # tr_run[2].result
    /\ tr_run[1].result.total_job_pages_found > 0
    /\ tr_run[2].result.total_pages_explored > 1

(***************************************************************************)
(* Pagination Exhauster: the click ceiling and the rounds.                 *)
(***************************************************************************)
\* C28: in every reachable state 0 <= total_clicks <= 20; total_clicks never
\* decreases; and once total_clicks is 20 the page carries out no further
\* click, whatever the vision model answers.
C28_ClickCeilingHolds ==
    /\ [](total_clicks \in 0..20)
    /\ [][/\ total_clicks' >= total_clicks
          /\ total_clicks = 20 => h_native_clicks' = h_native_clicks]_vars

C28_Witness ==
    /\ total_clicks = 20
    /\ h_native_clicks = 20
    /\ pg_pc = "ret"
    /\ vision_result = "CLICK,100,200"

\* C29: at most one click is made in a round: a click ends the scan of its
\* round, no stop is scanned and no query made in a round that has had its
\* click, and the scan starts again only through the round setup, which
\* scrolls to the top and reads the page height anew.
C29_OneClickPerRound ==
    /\ [](pg_pc \in {"scan", "query", "act", "advance"} => ~found_pagination)
    /\ [][h_native_clicks' # h_native_clicks
             => /\ h_native_clicks' = h_native_clicks + 1
                /\ ~found_pagination
                /\ found_pagination'
                /\ pg_pc' = "roundend"]_vars
    /\ [][(found_pagination /\ pg_pc' \in {"scan", "query", "act", "advance"})
             => /\ pg_pc = "round"
                /\ total_clicks < 20
                /\ pageYOffset' = 0
                /\ page_height' = doc_height
                /\ ~found_pagination']_vars

C29_Witness ==
    /\ pg_pc = "query"
    /\ h_rounds = 3
    /\ h_native_clicks = 2
    /\ current_scroll = 0
    /\ page_height = 500
    /\ vision_result = "CLICK,100,200"

\* the scroll offsets of the stops of a round: the multiples of the scroll
\* step below the page height, as far as the page scrolls
RoundStops ==
    {ScrolledTo(k * ScrollStep) :
        k \in {j \in 0..(page_height \div ScrollStep) : j * ScrollStep < page_height}}

\* C30: pagination is declared exhausted only after a full scan: when a round
\* ends without a hit, and no page operation has failed, the vision model
\* has answered at every stop of the round, for every page height.
C30_ExhaustedOnlyAfterFullScan ==
    (pg_pc = "roundend" /\ ~found_pagination /\ h_page_ok) =>
        RoundStops \subseteq Range(h_round_stops)


\* the position inside one iteration of the scan, counted down
StepsLeft ==
    CASE pg_pc = "start" -> 999
      [] pg_pc = "scan" -> 100 + 5 * (15 - iteration) + 4
      [] pg_pc = "query" -> 100 + 5 * (15 - iteration) + 3
      [] pg_pc = "act" -> 100 + 5 * (15 - iteration) + 2
      [] pg_pc = "advance" -> 100 + 5 * (15 - iteration) + 1
      [] pg_pc = "roundend" -> 50
      [] pg_pc = "round" -> 40
      [] pg_pc = "ret" -> 30
      [] OTHER -> 0

\* a measure of the work the call has left: the rounds it may still start,
\* then the iterations and steps left in the round
WorkLeft == 1000 * (21 - h_rounds) + StepsLeft

\* C37: every call of the Pagination Exhauster terminates, whatever the page
\* and the vision model do: the call can always take a step until it has
\* returned and every step lowers a measure that is never negative; at most
\* 20 rounds end in a click and at most one round ends without a hit, a
\* round makes at most 15 vision queries, and a call that reaches the click
\* ceiling ends with the normal result.
C37_ExhausterTerminates ==
    /\ [][WorkLeft' < WorkLeft]_vars
    /\ [](/\ WorkLeft >= 0
          /\ pg_pc # "done" => ENABLED NextPagination
          /\ h_rounds <= total_clicks + 1
          /\ h_rounds <= 21
          /\ Len(h_round_stops) <= 15
          /\ pg_pc = "query" => Len(h_round_stops) < 15
          /\ (pg_pc = "done" /\ total_clicks = 20) =>
                 result = [mode |-> "vision_click", total_clicks |-> 20])

C37_Witness ==
    /\ pg_pc = "done"
    /\ h_rounds = 20
    /\ total_clicks = 20
    /\ Len(h_round_stops) = 15
    /\ result.mode = "vision_click"

\* the answer has the form CLICK,x,y without "none" in it
ClickForm(s) ==
    /\ ~ContainsNone(Lower(s))
    /\ Len(Split(s)) = 3
    /\ Upper(Split(s)[1]) = "CLICK"

\* a CLICK answer whose coordinates are not both integers
Unparsable(s) == ClickForm(s) /\ ~(IsInt(Split(s)[2]) /\ IsInt(Split(s)[3]))

\* a CLICK answer whose point lies outside the viewport
OutsideViewport(s) ==
    /\ ClickForm(s)
    /\ IsInt(Split(s)[2]) /\ IsInt(Split(s)[3])
    /\ ~(/\ ToInt(Split(s)[2]) \in 0..(viewport_size.width - 1)
         /\ ToInt(Split(s)[3]) \in 0..(viewport_size.height - 1))

\* the step looked the element of a CLICK answer up and found none
NoElementAtPoint ==
    /\ ClickTarget(vision_result)
    /\ h_native_clicks' = h_native_clicks
    /\ result' = result

\* C31: a click target that cannot be acted on (coordinates that do not
\* parse, a point outside the viewport, no element at the point) leaves
\* total_clicks as it is and does not end the round: the round goes on to
\* its scroll step, which moves to the next stop when the page has one and
\* the scroll does not fail; and total_clicks is the number of clicks the
\* page carried out and reported as successful.
C31_UnactionableTargetIsPassedOver ==
    /\ [](total_clicks = h_native_clicks)
    /\ [][(/\ pg_pc = "act"
           /\ \/ Unparsable(vision_result)
              \/ OutsideViewport(vision_result)
              \/ NoElementAtPoint)
            => /\ total_clicks' = total_clicks
               /\ h_rounds' = h_rounds
               /\ ~found_pagination'
               /\ pg_pc' = "advance"]_vars
    /\ [][(pg_pc = "advance" /\ current_scroll + ScrollStep < page_height)
            => \/ /\ pg_pc' = "scan"
                  /\ h_rounds' = h_rounds
                  /\ pageYOffset' = ScrolledTo(current_scroll + ScrollStep)
               \/ ~h_page_ok']_vars

C31_Witness ==
    /\ pg_pc = "query"
    /\ iteration = 2
    /\ h_round_stops = <<0, 600>>
    /\ current_scroll = 1200
    /\ vision_result = "CLICK,abc,200"
    /\ total_clicks = 1

\* C39: the Pagination Exhauster looks up and clicks elements only at points
\* of the viewport, 0 <= x < width and 0 <= y < height; a click is made at
\* the point that was looked up; and a CLICK answer with a point outside
\* that range changes neither the page nor total_clicks.
C39_ClicksStayInsideViewport ==
    /\ [](\A p \in h_points : /\ 0 <= p[1] /\ p[1] < viewport_size.width
                              /\ 0 <= p[2] /\ p[2] < viewport_size.height)
    /\ [][h_native_clicks' # h_native_clicks
             => TargetPoint(vision_result) \in h_points']_vars
    /\ [][(pg_pc = "act" /\ OutsideViewport(vision_result))
            => /\ h_points' = h_points
               /\ h_native_clicks' = h_native_clicks
               /\ total_clicks' = total_clicks
               /\ doc_height' = doc_height
               /\ pageYOffset' = pageYOffset]_vars

C39_Witness ==
    /\ pg_pc = "advance"
    /\ vision_result = "CLICK,-5,200"
    /\ h_points = {<<100, 200>>, <<50, 60>>}
    /\ total_clicks = 2

\* C33: as stated: in every reachable state no frontier entry has a depth
\* greater than 3, and every job-page record has a depth between 0 and 3.
C33_FrontierDepthBounded ==
    /\ \A i \in 1..Len(pages_to_explore) : pages_to_explore[i][2] <= MAX_DEPTH
    /\ \A i \in 1..Len(job_pages) : job_pages[i].depth \in 0..MAX_DEPTH

\* C33: amended: a frontier entry has a depth between 0 and 4, one more
\* than the maximum, since the links of a page of depth 3 are still
\* enqueued; the depth is tested at dequeue, so every page that is marked
\* visited or classified and every job-page record has a depth between 0
\* and 3.
C33_DepthBoundedAtDequeue ==
    /\ \A i \in 1..Len(pages_to_explore) :
           pages_to_explore[i][2] \in 0..(MAX_DEPTH + 1)
    /\ dj_pc \in {"goto", "classify"} => depth \in 0..MAX_DEPTH
    /\ \A i \in 1..Len(h_classified) : h_classified[i][2] \in 0..MAX_DEPTH
    /\ \A i \in 1..Len(job_pages) : job_pages[i].depth \in 0..MAX_DEPTH

C33_Witness ==
    /\ dj_pc = "loop"
    /\ h_last = "classify"
    /\ depth = MAX_DEPTH
    /\ pages_to_explore # <<>>
    /\ pages_to_explore[Len(pages_to_explore)][2] = MAX_DEPTH + 1
    /\ \E i \in 1..Len(job_pages) : job_pages[i].depth = MAX_DEPTH

\* C32: the frontier is first in, first out: a step that takes an entry
\* takes the head and leaves the rest in order, and a step that adds entries
\* appends them after the entries already there; no other step changes the
\* frontier, so entries leave in the order in which they were enqueued.
C32_FrontierIsFifo ==
    [][\/ pages_to_explore' = pages_to_explore
       \/ /\ pages_to_explore # <<>>
          /\ pages_to_explore' = Tail(pages_to_explore)
          /\ <<current_url', depth'>> = Head(pages_to_explore)
       \/ /\ Len(pages_to_explore') > Len(pages_to_explore)
          /\ SubSeq(pages_to_explore', 1, Len(pages_to_explore)) = pages_to_explore
          /\ current_url' = current_url]_vars

C32_Witness ==
    /\ h_last = "visit"
    /\ depth = 1
    /\ Len(h_navigated) >= 3
    /\ Len(pages_to_explore) >= 3
    /\ pages_to_explore[1][2] = 1
    /\ pages_to_explore[Len(pages_to_explore)][2] = 2

\* C40: a URL is in the visited set from before the navigation to it is
\* attempted, and the set only grows: a URL whose page.goto or
\* classification failed stays in it, only a URL outside the set is taken
\* up for navigation, so none is navigated to twice, and the failed URLs
\* count in total_pages_explored and in the size the page cap is tested on.
C40_VisitedBeforeNavigationAndKept ==
    /\ [][visited_urls \subseteq visited_urls']_vars
    /\ [][(dj_pc # "goto" /\ dj_pc' = "goto")
            => /\ current_url' \notin visited_urls
               /\ current_url' \in visited_urls'
               /\ Cardinality(visited_urls) < MAX_PAGES_TO_EXPLORE]_vars
    /\ [](/\ dj_pc \in {"goto", "classify"} => current_url \in visited_urls
          /\ h_failed \subseteq visited_urls
          /\ {h_classified[i][1] : i \in 1..Len(h_classified)} \subseteq visited_urls
          /\ h_failed \cap Range(h_navigated) = {}
          /\ \A i, j \in 1..Len(h_navigated) :
                 h_navigated[i] = h_navigated[j] => i = j
          /\ dj_pc \in {"loop", "done"} =>
                 Cardinality(visited_urls) =
                     Cardinality(h_failed) + Len(h_navigated)
          /\ dj_result # Pending =>
                 dj_result.total_pages_explored = Cardinality(visited_urls))

C40_Witness ==
    /\ dj_pc = "done"
    /\ Cardinality(h_failed) >= 2
    /\ Len(h_navigated) >= 2
    /\ \E u \in h_failed : u \in h_enqueued
    /\ dj_result.total_pages_explored = Cardinality(h_failed) + Len(h_navigated)

C35_ClickActsOnScreenshotState ==
    [][walker = "_find_job_navigation" =>
          Len(h_clicked') <= Len(h_clicked) + 1]_vars

\* the walk of _find_next_job_element ended without an element
WalkedToTheEnd ==
    /\ sj_pc = "return"
    /\ sj_element = <<>>
    /\ h_sj_skipped = "no"

\* C36: the walk of _find_next_job_element queries the scroll positions
\* 0, V, 2V, ... that are strictly below the page height and no other: on
\* a page of height k*V a walk that finds no element has queried exactly
\* k stops, and none at k*V.
C36_SimpleWalkStopsBelowHeight ==
    /\ \A i \in DOMAIN h_sj_stops :
           /\ h_sj_stops[i] = (i - 1) * sj_viewport_height
           /\ h_sj_stops[i] < sj_page_height
    /\ (WalkedToTheEnd /\ sj_page_height % sj_viewport_height = 0) =>
           Len(h_sj_stops) = sj_page_height \div sj_viewport_height

\* stops the walk of _find_next_job_element has still to make
SimpleStopsLeft ==
    IF SimpleMoreStops
       THEN (sj_page_height - sj_scroll_position) \div sj_viewport_height + 1
       ELSE 0

\* a bound on the steps the call has still to take: the levels of
\* _explore_page that can still be entered, and the steps left in this one
SimpleWorkLeft ==
    LET levels == sj_max_depth + 2 - sj_depth IN
    CASE sj_pc = "called" -> 100 * (sj_max_depth + 3)
      [] sj_pc = "explore" -> 100 * levels + 90
      [] sj_pc = "classify" -> 100 * levels + 80
      [] sj_pc = "find" -> 100 * levels + 70
      [] sj_pc = "walk" -> 100 * levels + 10 + 2 * SimpleStopsLeft
      [] sj_pc = "click" -> 100 * levels + 5
      [] sj_pc = "return" -> 1
      [] OTHER -> 0

\* C38: a call of discover with bound max_depth ends: every step lowers a
\* bound on the steps left that is never negative, and a step can be taken
\* until the call has returned or raised; at most max_depth + 1 URLs are
\* ever in the visited set; every job-page record has a depth between 0
\* and max_depth; and a page is explored at most once: when a click leads
\* to a page already visited, _explore_page returns at once and records
\* nothing.
C38_SimpleDiscoveryIsBounded ==
    /\ [][SimpleWorkLeft' < SimpleWorkLeft]_vars
    /\ [](/\ SimpleWorkLeft >= 0
          /\ sj_pc \notin {"done", "raised"} => ENABLED NextSimple
          /\ Cardinality(sj_visited_urls) <= sj_max_depth + 1
          /\ \A i \in DOMAIN sj_job_pages : sj_job_pages[i].depth \in 0..sj_max_depth
          /\ \A i, j \in DOMAIN h_sj_explored :
                 h_sj_explored[i] = h_sj_explored[j] => i = j
          /\ Range(h_sj_explored) = sj_visited_urls)
    /\ [][(sj_pc = "explore" /\ sj_page_url \in sj_visited_urls)
            => /\ sj_pc' = "return"
               /\ UNCHANGED <<sj_visited_urls, sj_job_pages, sj_discovered_elements,
                              h_sj_explored>>]_vars

C38_Witness ==
    /\ sj_pc = "done"
    /\ sj_max_depth = MaxSimpleDepth
    /\ Cardinality(sj_visited_urls) = MaxSimpleDepth + 1
    /\ h_sj_skipped = "visited"
    /\ sj_depth = MaxSimpleDepth + 1
    /\ Len(sj_job_pages) = MaxSimpleDepth + 1

====
